---- MODULE Spec2Model ----
(***************************************************************************)
(* Model of the orphan-agent cleanup pass of lib/aoc_cleanup/core.py       *)
(* (run_cleanup and the helpers it calls).  One behaviour is one pass: the *)
(* host (process table, environments, session layouts, telemetry files)    *)
(* and the switches are fixed by Init, the actions are the statements of   *)
(* run_cleanup in program order.                                           *)
(***************************************************************************)
EXTENDS Integers, Sequences, FiniteSets, TLC

(***************************************************************************)
(* Bounds of the explored inputs.                                          *)
(***************************************************************************)
\* elapsed seconds of a process range over 0..MaxEtimes (or are unknown)
MaxEtimes == 1
\* a layout dump has up to MaxLines lines
MaxLines == 4
\* AOC_CLEANUP_MIN_PROCESS_AGE_SECS ranges over 0..MaxMinAge
MaxMinAge == 1
\* an expected_cwds / expected_ids count ranges over 1..MaxCount
MaxCount == 2

\* etimes of a row whose elapsed field is not an integer (Python None)
NoEtimes == -1
\* os.getpid()
MyPid == 9

(***************************************************************************)
(* Strings.  A path is the tuple of its characters, so that startswith,    *)
(* endswith and basename are computed as the code computes them.           *)
(***************************************************************************)
NoPath == << >>
DirA == <<"/", "a">>
DirAB == <<"/", "a", "/", "b">>
DirB == <<"/", "b">>
DirCB == <<"/", "c", "/", "b">>
RelB == <<"b">>
RelAB == <<"a", "/", "b">>

StartsWith(s, p) == Len(p) <= Len(s) /\ SubSeq(s, 1, Len(p)) = p

EndsWith(s, p) == Len(p) <= Len(s) /\ SubSeq(s, Len(s) - Len(p) + 1, Len(s)) = p

\* os.path.basename: what follows the last "/"
basename(path) ==
    LET slashes == {i \in 1..Len(path) : path[i] = "/"}
        last == IF slashes = {} THEN 0
                ELSE CHOOSE i \in slashes : \A j \in slashes : j <= i
    IN SubSeq(path, last + 1, Len(path))

cwd_matches(proc_path, active_cwd) ==
    IF proc_path = NoPath \/ active_cwd = NoPath THEN FALSE
    ELSE IF active_cwd[1] = "/"
         THEN proc_path = active_cwd \/ StartsWith(proc_path, active_cwd \o <<"/">>)
         ELSE proc_path = active_cwd \/ EndsWith(proc_path, <<"/">> \o active_cwd)

(***************************************************************************)
(* Command lines.  args is the tuple of the whitespace-separated words of  *)
(* the ps args column; the substring and regular-expression tests of the   *)
(* code are evaluated word by word on the words the model uses.            *)
(***************************************************************************)
AGENT_BINARIES ==
    {"opencode", "open-code", "codex", "gemini", "claude", "kimi", "pi",
     "pi-agent", "pi_agent", "aoc-agent", "aoc-agent-run", "aoc-oc", "aoc-cc",
     "aoc-gemini", "aoc-kimi", "aoc-pi"}

PROTECTED_COMMANDS ==
    {"aoc-session-watch", "aoc-cleanup", "aoc-init", "aoc-launch", "aoc-align",
     "aoc-doctor", "aoc-mem", "aoc-tasks", "aoc-widget", "aoc-clock", "aoc-sys"}

\* os.path.basename of a word of a command line
WordBase(w) ==
    CASE w = "/usr/bin/claude" -> "claude"
      [] w = "/opt/opencode/cli.js" -> "cli.js"
      [] w = "/usr/bin/aoc-cleanup" -> "aoc-cleanup"
      [] OTHER -> w

\* AGENT_NAME_PATTERN.search(w): w contains one of opencode, open-code, codex,
\* gemini, claude, kimi, pi-agent, pi_agent, aoc-pi (no extra pattern configured)
WordHasAgentName(w) ==
    w \in {"claude", "/usr/bin/claude", "/opt/opencode/cli.js", "claude_proxy.py",
           "opencode", "codex", "gemini", "kimi", "pi-agent", "aoc-pi"}

\* "opencode" in w
WordHasOpencode(w) == w \in {"/opt/opencode/cli.js", "opencode"}

\* base.startswith("opencode") or base.startswith("pi-agent")
BaseHasAgentPrefix(b) == b \in {"opencode", "pi-agent"}

\* p in w for one of the PROTECTED_COMMANDS
WordHasProtected(w) == w \in PROTECTED_COMMANDS \/ w = "/usr/bin/aoc-cleanup"

Words(args) == {args[i] : i \in 1..Len(args)}

\* a word with a blank on both sides: neither the first nor the last of args
InnerWords(args) == {args[i] : i \in 2..(Len(args) - 1)}

proc_cmd(args, comm) == IF Len(args) > 0 THEN args[1] ELSE comm

is_agent_process(args, comm) ==
    LET base == WordBase(proc_cmd(args, comm))
    IN \/ base \in AGENT_BINARIES
       \/ BaseHasAgentPrefix(base)
       \/ comm = "node" /\ \E w \in Words(args) : WordHasOpencode(w)
       \/ \E w \in Words(args) : WordHasAgentName(w)
       \/ WordHasAgentName(comm)

\* lines 754-758: the protected-command and the searching-process exclusions
is_excluded(args, comm) ==
    \/ WordHasProtected(comm)
    \/ \E w \in Words(args) : WordHasProtected(w)
    \/ InnerWords(args) \cap {"grep", "pgrep", "ps"} # {}

\* lines 762-771
kind_of(args, comm) ==
    LET base == WordBase(proc_cmd(args, comm))
    IN IF base \in AGENT_BINARIES \/ BaseHasAgentPrefix(base) THEN "agent_bin"
       ELSE IF comm = "node" /\ \E w \in Words(args) : WordHasOpencode(w)
            THEN "agent_node"
            ELSE "other"

\* str.strip() on the session and pane names the model uses
Strip(s) == IF s = "p1 " THEN "p1" ELSE s

(***************************************************************************)
(* Process tree helpers.                                                   *)
(***************************************************************************)
\* children_map.get(curr, [])
ChildrenOf(children_map, p) ==
    IF p \in DOMAIN children_map THEN children_map[p] ELSE {}

RECURSIVE DescendLoop(_, _, _)
DescendLoop(safe, stack, children_map) ==
    IF stack = {} THEN safe
    ELSE LET curr == CHOOSE x \in stack : TRUE
             fresh == ChildrenOf(children_map, curr) \ safe
         IN DescendLoop(safe \cup fresh, (stack \ {curr}) \cup fresh, children_map)

\* the closure that never follows a child link
get_descendants_RootsOnly(roots, children_map) == roots

get_descendants(roots, children_map) == DescendLoop(roots, roots, children_map)

\* the pids of a set in ascending order (the order of the ps listing)
RECURSIVE Ascending(_)
Ascending(S) ==
    IF S = {} THEN << >>
    ELSE LET m == CHOOSE x \in S : \A y \in S : x <= y
         IN <<m>> \o Ascending(S \ {m})

\* sorted(..., key=pid, reverse=True)
RECURSIVE Descending(_)
Descending(S) ==
    IF S = {} THEN << >>
    ELSE LET m == CHOOSE x \in S : \A y \in S : y <= x
         IN <<m>> \o Descending(S \ {m})

Range(s) == {s[i] : i \in 1..Len(s)}

\* s[:n]
Take(s, n) == SubSeq(s, 1, IF n < Len(s) THEN n ELSE Len(s))

RECURSIVE SumOver(_, _)
SumOver(f, S) ==
    IF S = {} THEN 0
    ELSE LET k == CHOOSE x \in S : TRUE IN f[k] + SumOver(f, S \ {k})

\* sum(counter.values())
CounterSum(counter) == SumOver(counter, DOMAIN counter)

(***************************************************************************)
(* State.  cfg and host are the inputs of one pass and never change:       *)
(*   cfg   the environment-variable switches (lines 140-143, 658-659);     *)
(*   host  the process listing and its outcome, the readable environment   *)
(*         blocks and working directories, the lease files, the session    *)
(*         list, the parsed layout dump of each session, the processes of  *)
(*         other users and the processes that survive SIGTERM;             *)
(*   os_live, fs_files  the processes and telemetry snapshot files that    *)
(*         exist now (the pass changes them by signalling and deleting).   *)
(* The other variables are the locals of run_cleanup, the module-level     *)
(* ENV_CACHE, what the pass has printed (output) and the signals it has    *)
(* issued (signals).  peer is a second pass started on the same process    *)
(* table and telemetry directory, when there is one: its position, its     *)
(* kill list and loop index, the snapshot files it still has to visit, its *)
(* own ENV_CACHE, and what its signals returned.                           *)
(***************************************************************************)
VARIABLES cfg, host, os_live, fs_files, peer,
          pc, processes, children, active_sessions, ev, active_panes_by_session,
          safe_pids, curr, agent_candidates, keep_pids, used_pane_selection,
          keep_tree, kill_list, skipped_young, skipped_pane_miss, idx,
          signals, output, removed_snapshots, fs_todo, ENV_CACHE

vars == <<cfg, host, os_live, fs_files, peer,
          pc, processes, children, active_sessions, ev, active_panes_by_session,
          safe_pids, curr, agent_candidates, keep_pids, used_pane_selection,
          keep_tree, kill_list, skipped_young, skipped_pane_miss, idx,
          signals, output, removed_snapshots, fs_todo, ENV_CACHE>>

\* what no step of the pass itself changes
inputs == <<cfg, host, peer>>

\* the locals, the cache and the output of the pass itself
own == <<pc, processes, children, active_sessions, ev, active_panes_by_session,
         safe_pids, curr, agent_candidates, keep_pids, used_pane_selection,
         keep_tree, kill_list, skipped_young, skipped_pane_miss, idx,
         signals, output, removed_snapshots, fs_todo, ENV_CACHE>>

\* a Counter with no entry, a dict with no key
Empty == << >>

EmptyEnv ==
    [session |-> "", pane_id |-> "", pane_instance_id |-> "", pane_lease_file |-> ""]

EmptyEvidence ==
    [active_commands |-> {}, agent_cwds |-> {}, expected_cwds |-> Empty,
     expected_ids |-> Empty]

\* counter.get(key, 0)
CountOf(counter, key) == IF key \in DOMAIN counter THEN counter[key] ELSE 0

\* Counter.update(other): counts add up
CounterUpdate(counter, other) ==
    [k \in DOMAIN counter \cup DOMAIN other |-> CountOf(counter, k) + CountOf(other, k)]

(***************************************************************************)
(* Session and layout evidence (lines 340-412, 658-688).                   *)
(***************************************************************************)
\* A layout dump is either given parsed (the record parse_layout and
\* parse_layout_pane_ids return) or as text: one record per line, holding
\* what the regular expressions of lines 237-293 capture from it:
\*   tab      the name of `tab name="..."`, "" on any other line;
\*   name     the value of the line's name attribute, << >> without one;
\*   cwd      the value of the line's cwd attribute, << >> without one;
\*   command  the value of the line's command attribute, "" without one.
\* No quoted token of the lines used here holds `cd "..."`, and no name or
\* cwd value holds an agent name.
LayoutLine(tab, name, cwd, command) ==
    [tab |-> tab, name |-> name, cwd |-> cwd, command |-> command]

AgentPrefix == <<"A", "g", "e", "n", "t", " ", "[">>

AocPrefix == <<"a", "o", "c", ":">>

\* s.find(ch) + 1
IndexOf(s, ch) ==
    IF \E i \in 1..Len(s) : s[i] = ch
    THEN CHOOSE i \in 1..Len(s) : s[i] = ch /\ \A j \in 1..(i - 1) : s[j] # ch
    ELSE 0

\* str.strip()
RECURSIVE StripChars(_)
StripChars(s) ==
    IF s # << >> /\ Head(s) = " " THEN StripChars(Tail(s))
    ELSE IF s # << >> /\ s[Len(s)] = " " THEN StripChars(SubSeq(s, 1, Len(s) - 1))
    ELSE s

\* lines 256-257: the id of a name "Agent [<id>]", << >> for any other name
AgentMarkerId(name) ==
    IF StartsWith(name, AgentPrefix) /\ IndexOf(name, "]") # 0
    THEN LET rest == SubSeq(name, IndexOf(name, "[") + 1, Len(name))
             close == IndexOf(rest, "]")
         IN StripChars(IF close = 0 THEN rest ELSE SubSeq(rest, 1, close - 1))
    ELSE << >>

\* lines 263-264: the id of a name "aoc:<id>", << >> for any other name
AocMarkerId(name) ==
    IF StartsWith(name, AocPrefix)
    THEN StripChars(SubSeq(name, Len(AocPrefix) + 1, Len(name)))
    ELSE << >>

\* os.path.join(base, rel)
PathJoin(base, rel) ==
    IF rel # << >> /\ Head(rel) = "/" THEN rel
    ELSE IF base # << >> /\ base[Len(base)] = "/" THEN base \o rel
    ELSE base \o <<"/">> \o rel

\* lines 175-182
normalize_cwd(cwd, projects_base) ==
    IF cwd = << >> THEN << >>
    ELSE IF Head(cwd) = "/" THEN cwd
    ELSE IF projects_base # << >> THEN PathJoin(projects_base, cwd)
    ELSE cwd

NewTab(name) == [name |-> name, cwds |-> << >>, agent_count |-> 0]

\* flush_tab, lines 231-235, on the list holding the current tab if any
FlushTab(tabs, current_tab) ==
    IF current_tab # << >> /\ current_tab[1].name # "" THEN Append(tabs, current_tab[1])
    ELSE tabs

\* one for every counted id
Bump(counter, id) == IF id = << >> THEN counter ELSE CounterUpdate(counter, id :> 1)

\* a loop body in which a name "aoc:<id>" counts for its tab as well
ParseLine_CountsAoc(st, line, projects_base) ==
    IF line.tab # ""
    THEN [st EXCEPT !.tabs = FlushTab(st.tabs, st.current_tab),
                    !.current_tab = <<NewTab(line.tab)>>]
    ELSE LET tab == IF st.current_tab = << >> THEN NewTab("") ELSE st.current_tab[1]
             name == StripChars(line.name)
             agent_id == AgentMarkerId(name)
             aoc_id == AocMarkerId(name)
             cwd == normalize_cwd(line.cwd, projects_base)
         IN [st EXCEPT
               !.expected_ids = Bump(Bump(@, agent_id), aoc_id),
               !.agent_cwds = IF cwd # << >> THEN @ \cup {cwd} ELSE @,
               !.active_commands =
                   IF line.command # "" /\ WordHasAgentName(line.command)
                   THEN @ \cup {line.command} ELSE @,
               !.current_tab =
                   <<[tab EXCEPT
                        !.agent_count = IF agent_id # << >> \/ aoc_id # << >>
                                        THEN @ + 1 ELSE @,
                        !.cwds = IF cwd # << >> THEN Append(@, cwd) ELSE @]>>]

\* the body of the loop of lines 237-293 for one line
ParseLine(st, line, projects_base) ==
    IF line.tab # ""
    THEN [st EXCEPT !.tabs = FlushTab(st.tabs, st.current_tab),
                    !.current_tab = <<NewTab(line.tab)>>]
    ELSE LET tab == IF st.current_tab = << >> THEN NewTab("") ELSE st.current_tab[1]
             name == StripChars(line.name)
             agent_id == AgentMarkerId(name)
             aoc_id == AocMarkerId(name)
             cwd == normalize_cwd(line.cwd, projects_base)
         IN [st EXCEPT
               !.expected_ids = Bump(Bump(@, agent_id), aoc_id),
               !.agent_cwds = IF cwd # << >> THEN @ \cup {cwd} ELSE @,
               !.active_commands =
                   IF line.command # "" /\ WordHasAgentName(line.command)
                   THEN @ \cup {line.command} ELSE @,
               !.current_tab =
                   <<[tab EXCEPT
                        !.agent_count = IF agent_id # << >> THEN @ + 1 ELSE @,
                        !.cwds = IF cwd # << >> THEN Append(@, cwd) ELSE @]>>]

RECURSIVE ParseLines(_, _, _)
ParseLines(st, text, projects_base) ==
    IF text = << >> THEN st
    ELSE ParseLines(ParseLine(st, Head(text), projects_base), Tail(text), projects_base)

\* counts.most_common(1)[0][0]: the most frequent entry, the earliest of them
MostCommon(cwds) ==
    LET count(c) == Cardinality({i \in 1..Len(cwds) : cwds[i] = c})
        first(c) == IndexOf(cwds, c)
    IN CHOOSE c \in Range(cwds) :
          \A d \in Range(cwds) \ {c} :
              count(c) > count(d) \/ (count(c) = count(d) /\ first(c) < first(d))

\* lines 297-305
RECURSIVE TabCounts(_, _)
TabCounts(expected_cwds, tabs) ==
    IF tabs = << >> THEN expected_cwds
    ELSE LET tab == Head(tabs)
         IN TabCounts(
                IF tab.cwds # << >> /\ tab.agent_count > 0
                THEN CounterUpdate(expected_cwds, MostCommon(tab.cwds) :> tab.agent_count)
                ELSE expected_cwds,
                Tail(tabs))

\* lines 307-313: the project directories guessed from the identities
WithProjectGuesses(parsed, projects_base, dirs) ==
    LET guessed == {a \in DOMAIN parsed.expected_ids :
                       PathJoin(projects_base, a) \in dirs}
        fresh == {a \in guessed : PathJoin(projects_base, a) \notin DOMAIN parsed.expected_cwds}
    IN IF projects_base = << >> THEN parsed
       ELSE [parsed EXCEPT
               !.agent_cwds = @ \cup {PathJoin(projects_base, a) : a \in guessed},
               !.expected_cwds =
                   @ @@ [g \in {PathJoin(projects_base, a) : a \in fresh} |->
                           parsed.expected_ids[CHOOSE a \in fresh :
                                                   PathJoin(projects_base, a) = g]]]

\* lines 221-315
parse_layout(text, projects_base, dirs) ==
    LET st == ParseLines([tabs |-> << >>, current_tab |-> << >>,
                          active_commands |-> {}, agent_cwds |-> {},
                          expected_ids |-> Empty],
                         text, projects_base)
        tabs == FlushTab(st.tabs, st.current_tab)
    IN WithProjectGuesses(
           [active_commands |-> st.active_commands, agent_cwds |-> st.agent_cwds,
            expected_cwds |-> TabCounts(Empty, tabs), expected_ids |-> st.expected_ids],
           projects_base, dirs)

\* parse of dump_layout(session); an empty dump yields nothing
LayoutOf(session) ==
    IF session \in DOMAIN host.layouts /\ "text" \in DOMAIN host.layouts[session]
    THEN IF host.layouts[session].text = << >>
         THEN [active_commands |-> {}, agent_cwds |-> {}, expected_cwds |-> Empty,
               expected_ids |-> Empty, pane_ids |-> {}]
         ELSE LET p == parse_layout(host.layouts[session].text,
                                    host.projects_base, host.dirs)
              IN [active_commands |-> p.active_commands, agent_cwds |-> p.agent_cwds,
                  expected_cwds |-> p.expected_cwds, expected_ids |-> p.expected_ids,
                  pane_ids |-> host.layouts[session].pane_ids]
    ELSE IF session \in DOMAIN host.layouts THEN host.layouts[session]
    ELSE [active_commands |-> {}, agent_cwds |-> {}, expected_cwds |-> Empty,
          expected_ids |-> Empty, pane_ids |-> {}]

\* lines 666-677
ActiveSessions ==
    IF ~cfg.filter_set THEN host.sessions
    ELSE IF cfg.session_filter = {} THEN {}
    ELSE IF host.sessions # {} /\ host.sessions \cap cfg.session_filter # {}
         THEN host.sessions \cap cfg.session_filter
         ELSE cfg.session_filter

\* the sessions build_active_sets and build_active_pane_map dump: the listed
\* sessions (those allowed by the filter), else the current session alone
DumpedSessions(allowed) ==
    LET sessions == IF cfg.filter_set THEN host.sessions \cap allowed ELSE host.sessions
    IN IF sessions # {} THEN sessions
       ELSE IF host.curr = "" THEN {}
       ELSE IF cfg.filter_set /\ host.curr \notin allowed THEN {}
       ELSE {host.curr}

RECURSIVE MergeEvidence(_, _)
MergeEvidence(acc, sessions) ==
    IF sessions = {} THEN acc
    ELSE LET s == CHOOSE x \in sessions : TRUE
             l == LayoutOf(s)
         IN MergeEvidence(
                [active_commands |-> acc.active_commands \cup l.active_commands,
                 agent_cwds |-> acc.agent_cwds \cup l.agent_cwds,
                 expected_cwds |-> CounterUpdate(acc.expected_cwds, l.expected_cwds),
                 expected_ids |-> CounterUpdate(acc.expected_ids, l.expected_ids)],
                sessions \ {s})

build_active_sets(allowed) == MergeEvidence(EmptyEvidence, DumpedSessions(allowed))

build_active_pane_map(allowed) ==
    LET with_panes == {s \in DumpedSessions(allowed) : LayoutOf(s).pane_ids # {}}
    IN [s \in with_panes |-> LayoutOf(s).pane_ids]

\* the gate's test made to count pane ids as evidence
have_active_signals_WithPanes ==
    \/ ev.active_commands # {}
    \/ ev.agent_cwds # {}
    \/ DOMAIN ev.expected_cwds # {}
    \/ DOMAIN ev.expected_ids # {}
    \/ DOMAIN active_panes_by_session # {}

\* lines 685-688
have_active_signals ==
    \/ ev.active_commands # {}
    \/ ev.agent_cwds # {}
    \/ DOMAIN ev.expected_cwds # {}
    \/ DOMAIN ev.expected_ids # {}

pane_layout_signals ==
    \/ DOMAIN ev.expected_cwds # {}
    \/ DOMAIN ev.expected_ids # {}
    \/ DOMAIN active_panes_by_session # {}

\* "pane_strict and pane_layout_signals"
StrictWithEvidence == cfg.pane_strict /\ pane_layout_signals

(***************************************************************************)
(* Reads of /proc (lines 415-437, 534-538) and of the lease file.          *)
(***************************************************************************)
\* the environment block of pid as /proc gives it now; {} when the read fails
ReadEnviron(pid) ==
    IF pid \in os_live /\ pid \in DOMAIN host.environ THEN host.environ[pid]
    ELSE EmptyEnv

\* proc_env: the cached block if there is one
proc_env(pid) == IF pid \in DOMAIN ENV_CACHE THEN ENV_CACHE[pid] ELSE ReadEnviron(pid)

\* ENV_CACHE after proc_env has been called for every pid of a set
CacheAfter(pids) ==
    [p \in DOMAIN ENV_CACHE \cup pids |-> proc_env(p)]

proc_cwd(pid) ==
    IF pid \in os_live /\ pid \in DOMAIN host.cwd THEN host.cwd[pid] ELSE NoPath

\* lines 782-789
pane_instance_match_of(env) ==
    IF env.pane_instance_id # "" /\ env.pane_lease_file # ""
    THEN IF env.pane_lease_file \in DOMAIN host.lease
         THEN host.lease[env.pane_lease_file] = env.pane_instance_id
         ELSE FALSE
    ELSE TRUE

\* the session test letting a process without session variables pass
proc_has_active_session_NoSessionOk(pid, sessions) ==
    IF sessions = {} THEN FALSE
    ELSE LET session == proc_env(pid).session
         IN IF session = "" THEN TRUE ELSE session \in sessions

\* lines 440-451
proc_has_active_session(pid, sessions) ==
    IF sessions = {} THEN FALSE
    ELSE LET session == proc_env(pid).session
         IN IF session = "" THEN FALSE ELSE session \in sessions

\* a slip in the last test: the session looked up in its own pane set
proc_matches_active_pane_BySession(proc, panes) ==
    LET session == Strip(proc.session)
        pane_id == Strip(proc.pane_id)
    IN IF session = "" \/ pane_id = "" THEN FALSE
       ELSE IF session \notin DOMAIN panes THEN FALSE
       ELSE session \in panes[session]

\* lines 454-462
proc_matches_active_pane(proc, panes) ==
    LET session == Strip(proc.session)
        pane_id == Strip(proc.pane_id)
    IN IF session = "" \/ pane_id = "" THEN FALSE
       ELSE IF session \notin DOMAIN panes THEN FALSE
       ELSE pane_id \in panes[session]

(***************************************************************************)
(* Safe tree (lines 624-650, 690-710).                                     *)
(***************************************************************************)
\* "tmux" in w
WordHasTmux(w) == w \in {"tmux", "/usr/bin/tmux"}

\* socket_re.search(args).group(2): the word after the last -L / -S that follows
\* a word ending in tmux; "" when the expression does not match
tmux_socket(args) ==
    LET starts == {i \in 1..Len(args) : WordHasTmux(args[i])}
        flags == {j \in 1..(Len(args) - 1) :
                     /\ args[j] \in {"-L", "-S"}
                     /\ \E i \in starts : i < j}
    IN IF flags = {} THEN ""
       ELSE args[(CHOOSE j \in flags : \A k \in flags : k <= j) + 1]

find_safe_tmux_sockets(safe, procs) ==
    {tmux_socket(procs[p].args) :
        p \in {q \in safe \cap DOMAIN procs :
                  /\ \E w \in Words(procs[q].args) : WordHasTmux(w)
                  /\ tmux_socket(procs[q].args) # ""}}

find_tmux_servers_for_sockets(sockets, procs) ==
    IF sockets = {} THEN {}
    ELSE {p \in DOMAIN procs :
             /\ procs[p].comm = "tmux"
             /\ "-D" \in {procs[p].args[i] : i \in 2..Len(procs[p].args)}
             /\ tmux_socket(procs[p].args) # ""
             /\ tmux_socket(procs[p].args) \in sockets}

\* lines 690-693
zellij_pids == {p \in DOMAIN processes : processes[p].comm = "zellij"}

\* lines 706-710
WithTmuxServers(safe) ==
    LET safe_sockets == find_safe_tmux_sockets(safe, processes)
    IN IF safe_sockets = {} THEN safe
       ELSE safe \cup get_descendants(
                find_tmux_servers_for_sockets(safe_sockets, processes), children)

(***************************************************************************)
(* Candidate classification (lines 746-810).                               *)
(***************************************************************************)
IsCandidateRow(pid) ==
    /\ is_agent_process(processes[pid].args, processes[pid].comm)
    /\ ~is_excluded(processes[pid].args, processes[pid].comm)

Candidate(pid) ==
    LET info == processes[pid]
        env == proc_env(pid)
    IN [pid |-> pid, ppid |-> info.ppid, etimes |-> info.etimes,
        args |-> info.args, comm |-> info.comm, cwd |-> proc_cwd(pid),
        safe |-> pid \in safe_pids, kind |-> kind_of(info.args, info.comm),
        session |-> env.session, pane_id |-> env.pane_id,
        pane_instance_id |-> env.pane_instance_id,
        pane_lease_file |-> env.pane_lease_file,
        pane_instance_match |-> pane_instance_match_of(env),
        tty |-> info.tty, has_tty |-> info.tty # "" /\ info.tty # "?"]

CandidatePids == {p \in DOMAIN processes : IsCandidateRow(p)}

ClassifyAll ==
    LET order == Ascending(CandidatePids)
    IN [i \in 1..Len(order) |-> Candidate(order[i])]

Candidates == Range(agent_candidates)

(***************************************************************************)
(* Keep selection (lines 812-922).                                         *)
(***************************************************************************)
\* root_rank, lines 815-824
root_rank(proc) ==
    <<IF proc.has_tty THEN 0 ELSE 1,
      CASE proc.kind = "agent_node" -> 0
        [] proc.kind = "agent_bin" -> 1
        [] OTHER -> 2,
      0 - proc.pid>>

\* tuple comparison of two ranks
RankLess(a, b) ==
    \/ a[1] < b[1]
    \/ a[1] = b[1] /\ a[2] < b[2]
    \/ a[1] = b[1] /\ a[2] = b[2] /\ a[3] < b[3]

\* lines 827-835
PaneGroupKeys ==
    {<<p.session, p.pane_id>> :
        p \in {q \in Candidates :
                  /\ q.pane_id # ""
                  /\ ~(active_sessions # {} /\ q.session # ""
                       /\ q.session \notin active_sessions)}}

PaneGroup(key) ==
    {p \in Candidates :
        /\ p.pane_id # ""
        /\ ~(active_sessions # {} /\ p.session # "" /\ p.session \notin active_sessions)
        /\ <<p.session, p.pane_id>> = key}

\* a group entry chosen among all members of the group
SelectedRoot_TopOfGroup(key) ==
    LET procs == PaneGroup(key)
        first == CHOOSE p \in procs :
                    \A q \in procs \ {p} : RankLess(root_rank(p), root_rank(q))
    IN [proc |-> first,
        has_tty |-> \E p \in procs : p.has_tty,
        has_session |-> \E p \in procs : p.session # ""]

\* lines 841-857: the entry a group adds to selected_roots
SelectedRoot(key) ==
    LET procs == PaneGroup(key)
        with_tty == {p \in procs : p.has_tty}
        group_pids == {p.pid : p \in procs}
        roots == {p \in procs : p.ppid \notin group_pids}
        preferred_pool == IF with_tty # {} THEN with_tty
                          ELSE IF roots # {} THEN roots ELSE procs
        first == CHOOSE p \in preferred_pool :
                    \A q \in preferred_pool \ {p} : RankLess(root_rank(p), root_rank(q))
    IN [proc |-> first,
        has_tty |-> with_tty # {},
        has_session |-> \E p \in procs : p.session # ""]

\* the sort key of lines 865-871, compared as a tuple
RootEntryLess(r, s) ==
    LET kr == <<IF r.has_tty THEN 0 ELSE 1, IF r.has_session THEN 0 ELSE 1>>
        ks == <<IF s.has_tty THEN 0 ELSE 1, IF s.has_session THEN 0 ELSE 1>>
    IN \/ kr[1] < ks[1]
       \/ kr[1] = ks[1] /\ kr[2] < ks[2]
       \/ kr = ks /\ RankLess(root_rank(r.proc), root_rank(s.proc))

\* lines 859-863
expected_total ==
    IF DOMAIN ev.expected_cwds # {} THEN CounterSum(ev.expected_cwds)
    ELSE IF DOMAIN ev.expected_ids # {} THEN CounterSum(ev.expected_ids)
    ELSE 0

\* a pane-strict selection that keeps every group's entry
PaneSelection_NoCut ==
    {SelectedRoot(k).proc.pid : k \in PaneGroupKeys}

\* lines 839-874: the pids pane-strict selection keeps
PaneSelection ==
    LET selected_roots == {SelectedRoot(k) : k \in PaneGroupKeys}
        cut == IF expected_total # 0 /\ Cardinality(selected_roots) > expected_total
               THEN {r \in selected_roots :
                        Cardinality({s \in selected_roots : RootEntryLess(s, r)})
                            < expected_total}
               ELSE selected_roots
    IN {r.proc.pid : r \in cut}

\* lines 826, 837
PaneSelectionRuns == StrictWithEvidence /\ PaneGroupKeys # {}

\* a selection that takes one candidate more than the entry's count
PreferredPick_OneMore(procs, keep_count) ==
    LET bins == {p \in procs : p.kind = "agent_bin"}
        nodes == {p \in procs : p.kind = "agent_node"}
        preferred == IF bins # {} THEN bins ELSE IF nodes # {} THEN nodes ELSE procs
    IN Range(Take(Descending({p.pid : p \in preferred}), keep_count + 1))

\* a selection by descending pid alone, whatever the kind
PreferredPick_AnyKind(procs, keep_count) ==
    Range(Take(Descending({p.pid : p \in procs}), keep_count))

\* lines 889-897 and 910-918: of the matching candidates, the first keep_count
\* by descending pid among the best kind present
PreferredPick(procs, keep_count) ==
    LET bins == {p \in procs : p.kind = "agent_bin"}
        nodes == {p \in procs : p.kind = "agent_node"}
        preferred == IF bins # {} THEN bins ELSE IF nodes # {} THEN nodes ELSE procs
    IN Range(Take(Descending({p.pid : p \in preferred}), keep_count))

\* key_matches[cwd_hint], lines 878-883
CwdMatches(cwd_hint) == {p \in Candidates : cwd_matches(p.cwd, cwd_hint)}

\* the pids the selection of one expected_cwds entry keeps, lines 885-897
CwdSelection(cwd_hint) ==
    PreferredPick(CwdMatches(cwd_hint), CountOf(ev.expected_cwds, cwd_hint))

\* key_matches[agent_id], lines 899-905
IdMatches(agent_id) ==
    {p \in Candidates : p.cwd # NoPath /\ basename(p.cwd) # NoPath
                        /\ basename(p.cwd) = agent_id}

IdSelection(agent_id) ==
    PreferredPick(IdMatches(agent_id), CountOf(ev.expected_ids, agent_id))

\* a selection in which every strategy adds its pids
SelectKeepPids_Union ==
    (IF PaneSelectionRuns THEN PaneSelection ELSE {})
    \cup UNION {CwdSelection(d) : d \in DOMAIN ev.expected_cwds}
    \cup UNION {IdSelection(a) : a \in DOMAIN ev.expected_ids}

\* lines 812-918
SelectKeepPids ==
    IF PaneSelectionRuns THEN PaneSelection
    ELSE IF DOMAIN ev.expected_cwds # {}
         THEN UNION {CwdSelection(d) : d \in DOMAIN ev.expected_cwds}
    ELSE IF DOMAIN ev.expected_ids # {}
         THEN UNION {IdSelection(a) : a \in DOMAIN ev.expected_ids}
    ELSE {}

\* a keep tree without the descendants
KeepTreeOf_KeptOnly(kept) == kept

\* lines 920-922
KeepTreeOf(kept) == IF kept # {} THEN get_descendants(kept, children) ELSE {}

(***************************************************************************)
(* Kill decision (lines 927-991): the rules in the order the loop tests    *)
(* them.                                                                   *)
(***************************************************************************)
\* the session-filter rule tried after the lease rule
FilterExcluded_UnlessLease(proc) ==
    /\ cfg.filter_set /\ proc.session # "" /\ proc.session \notin active_sessions
    /\ ~(proc.pane_instance_id # "" /\ ~proc.pane_instance_match)

\* lines 931-936
FilterExcluded(proc) ==
    cfg.filter_set /\ proc.session # "" /\ proc.session \notin active_sessions

\* the lease rule made to respect the safe tree
LeaseMismatch_SparesSafe(proc) ==
    proc.pane_instance_id # "" /\ ~proc.pane_instance_match /\ ~proc.safe

\* line 937
LeaseMismatch(proc) == proc.pane_instance_id # "" /\ ~proc.pane_instance_match

\* lines 942-946
PaneMiss(proc) ==
    /\ proc.session # ""
    /\ proc.pane_id # ""
    /\ proc.session \in DOMAIN active_panes_by_session

\* an age test that takes an unknown age for an old one
BelowMinAge_KnownOnly(proc) ==
    proc.etimes # NoEtimes /\ proc.etimes < cfg.min_process_age_secs

\* "proc_age is None or proc_age < min_process_age_secs"
BelowMinAge(proc) ==
    proc.etimes = NoEtimes \/ proc.etimes < cfg.min_process_age_secs

\* a pane-miss rule that never ages a candidate out
PaneMissVerdict_NoAge(proc) ==
    IF StrictWithEvidence THEN "kill" ELSE "pane_miss"

\* lines 947-957
PaneMissVerdict(proc) ==
    IF StrictWithEvidence THEN "kill"
    ELSE IF cfg.min_process_age_secs <= 0 THEN "pane_miss"
    ELSE IF BelowMinAge(proc) THEN "pane_miss"
    ELSE "kill"

\* the safe rule asking for an active session also when no filter is set
SafeRetained_NeedsSession(proc) ==
    /\ proc.pid \in safe_pids
    /\ ~StrictWithEvidence
    /\ proc_has_active_session(proc.pid, active_sessions)

\* the safe rule with the test for a filter turned round
SafeRetained_WhenFiltered(proc) ==
    /\ proc.pid \in safe_pids
    /\ ~StrictWithEvidence
    /\ cfg.filter_set /\ proc_has_active_session(proc.pid, active_sessions)

\* lines 959-964
SafeRetained(proc) ==
    /\ proc.pid \in safe_pids
    /\ ~StrictWithEvidence
    /\ (~cfg.filter_set \/ proc_has_active_session(proc.pid, active_sessions))

\* lines 967-969
SessionRetained(proc) ==
    proc_has_active_session(proc.pid, active_sessions) /\ ~StrictWithEvidence

\* lines 549-557
cmd_matches(proc_exec, active_cmd) ==
    IF proc_exec = "" \/ active_cmd = "" THEN FALSE
    ELSE proc_exec = active_cmd \/ WordBase(proc_exec) = WordBase(active_cmd)

\* "cmd in proc['args']"
CmdInArgs(cmd, args) ==
    \E w \in Words(args) :
        \/ w = cmd
        \/ cmd = "claude" /\ w \in {"/usr/bin/claude", "claude_proxy.py"}
        \/ cmd = "opencode" /\ WordHasOpencode(w)

\* rule 8 with the directory hints tried for every candidate
ActiveHit_CwdAlways(proc) ==
    /\ have_active_signals
    /\ ~StrictWithEvidence
    /\ \/ \E cmd \in ev.active_commands :
             cmd_matches(proc_cmd(proc.args, proc.comm), cmd) \/ CmdInArgs(cmd, proc.args)
       \/ \E ac \in ev.agent_cwds : cwd_matches(proc.cwd, ac)

\* lines 971-983
ActiveHit(proc) ==
    /\ have_active_signals
    /\ ~StrictWithEvidence
    /\ \/ \E cmd \in ev.active_commands :
             cmd_matches(proc_cmd(proc.args, proc.comm), cmd) \/ CmdInArgs(cmd, proc.args)
       \/ /\ ~(proc.session # "" /\ proc.pane_id # "")
          /\ \E ac \in ev.agent_cwds : cwd_matches(proc.cwd, ac)

\* the outcome of one iteration of the loop of lines 927-991
Decide(proc) ==
    IF FilterExcluded(proc) THEN "retain"
    ELSE IF LeaseMismatch(proc) THEN "kill"
    ELSE IF proc_matches_active_pane(proc, active_panes_by_session) THEN "retain"
    ELSE IF PaneMiss(proc) THEN PaneMissVerdict(proc)
    ELSE IF SafeRetained(proc) THEN "retain"
    ELSE IF proc.pid \in keep_tree THEN "retain"
    ELSE IF SessionRetained(proc) THEN "retain"
    ELSE IF ActiveHit(proc) THEN "retain"
    ELSE IF cfg.min_process_age_secs > 0 /\ BelowMinAge(proc) THEN "young"
    ELSE "kill"

KillPids == {kill_list[i].pid : i \in 1..Len(kill_list)}

(***************************************************************************)
(* Snapshot pruning (lines 474-531): what the loop does with one file.     *)
(***************************************************************************)
\* lines 485-490: the session directory is skipped
PruneSkipsSession(session_name) ==
    cfg.filter_set /\ active_sessions # {} /\ session_name \notin active_sessions

\* lines 495-497
PaneStillActive(f) ==
    LET allowed_panes == IF f.session \in DOMAIN active_panes_by_session
                         THEN active_panes_by_session[f.session] ELSE {}
    IN Strip(f.pane_id) # "" /\ Strip(f.pane_id) \in allowed_panes

\* lines 499-518
KeptByLivePid(f) ==
    /\ f.json_ok
    /\ f.pid > 0
    /\ proc_env(f.pid).session = f.session
    /\ proc_env(f.pid).pane_id = Strip(f.pane_id)

\* the file reaches the removal of lines 521-530
Stale(f) ==
    ~PruneSkipsSession(f.session) /\ ~PaneStillActive(f) /\ ~KeptByLivePid(f)

(***************************************************************************)
(* The pass: run_cleanup, lines 653-1039.                                  *)
(***************************************************************************)
Say(tag, n) == output \o << <<tag, n>> >>

\* a listing whose rows survive the failure of ps
GetProcessMap_KeepsRows ==
    /\ pc = "start"
    /\ processes' = host.procs
    /\ children' =
           [pp \in {host.procs[p].ppid : p \in DOMAIN host.procs} |->
               {p \in DOMAIN host.procs : host.procs[p].ppid = pp}]
    /\ pc' = IF host.ps = "error" THEN "crashed" ELSE "sessions"
    /\ UNCHANGED <<inputs, os_live, fs_files, active_sessions, ev,
                   active_panes_by_session, safe_pids, curr, agent_candidates,
                   keep_pids, used_pane_selection, keep_tree, kill_list,
                   skipped_young, skipped_pane_miss, idx, signals, output,
                   removed_snapshots, fs_todo, ENV_CACHE>>

\* get_process_map, lines 572-609.  A listing that exits non-zero gives the
\* empty maps; any other failure to run ps is not caught and ends the pass.
GetProcessMap ==
    /\ pc = "start"
    /\ processes' = IF host.ps = "ok" THEN host.procs ELSE Empty
    /\ children' =
           IF host.ps = "ok"
           THEN [pp \in {host.procs[p].ppid : p \in DOMAIN host.procs} |->
                    {p \in DOMAIN host.procs : host.procs[p].ppid = pp}]
           ELSE Empty
    /\ pc' = IF host.ps = "error" THEN "crashed" ELSE "sessions"
    /\ UNCHANGED <<inputs, os_live, fs_files, active_sessions, ev,
                   active_panes_by_session, safe_pids, curr, agent_candidates,
                   keep_pids, used_pane_selection, keep_tree, kill_list,
                   skipped_young, skipped_pane_miss, idx, signals, output,
                   removed_snapshots, fs_todo, ENV_CACHE>>

\* lines 658-688: the session list, the filter, the layout evidence
CollectEvidence ==
    /\ pc = "sessions"
    /\ IF cfg.skip_if_no_sessions /\ host.sessions = {}
       THEN /\ output' = Say("skip_no_sessions", 0)
            /\ pc' = "skipped"
            /\ UNCHANGED <<active_sessions, ev, active_panes_by_session>>
       ELSE /\ active_sessions' = ActiveSessions
            /\ ev' = build_active_sets(ActiveSessions)
            /\ active_panes_by_session' = build_active_pane_map(ActiveSessions)
            /\ pc' = "roots"
            /\ UNCHANGED output
    /\ UNCHANGED <<inputs, os_live, fs_files, processes, children, safe_pids, curr,
                   agent_candidates, keep_pids, used_pane_selection, keep_tree,
                   kill_list, skipped_young, skipped_pane_miss, idx, signals,
                   removed_snapshots, fs_todo, ENV_CACHE>>

\* lines 690-701
SafeRoots ==
    /\ pc = "roots"
    /\ output' = IF zellij_pids = {} THEN Say("warn_no_zellij", 0) ELSE output
    /\ safe_pids' = get_descendants(zellij_pids, children)
    /\ curr' = MyPid
    /\ pc' = "ancestors"
    /\ UNCHANGED <<inputs, os_live, fs_files, processes, children, active_sessions,
                   ev, active_panes_by_session, agent_candidates, keep_pids,
                   used_pane_selection, keep_tree, kill_list, skipped_young,
                   skipped_pane_miss, idx, signals, removed_snapshots, fs_todo,
                   ENV_CACHE>>

\* the walk that starts at the tool's parent instead of the tool
AncestorStep_FromParent ==
    /\ pc = "ancestors"
    /\ curr \in DOMAIN processes
    /\ safe_pids' = IF curr = MyPid THEN safe_pids ELSE safe_pids \cup {curr}
    /\ curr' = processes[curr].ppid
    /\ UNCHANGED <<inputs, os_live, fs_files, pc, processes, children,
                   active_sessions, ev, active_panes_by_session, agent_candidates,
                   keep_pids, used_pane_selection, keep_tree, kill_list,
                   skipped_young, skipped_pane_miss, idx, signals, output,
                   removed_snapshots, fs_todo, ENV_CACHE>>

\* one iteration of the loop of lines 702-704
AncestorStep ==
    /\ pc = "ancestors"
    /\ curr \in DOMAIN processes
    /\ safe_pids' = safe_pids \cup {curr}
    /\ curr' = processes[curr].ppid
    /\ UNCHANGED <<inputs, os_live, fs_files, pc, processes, children,
                   active_sessions, ev, active_panes_by_session, agent_candidates,
                   keep_pids, used_pane_selection, keep_tree, kill_list,
                   skipped_young, skipped_pane_miss, idx, signals, output,
                   removed_snapshots, fs_todo, ENV_CACHE>>

\* the loop's exit, then lines 706-742: the tmux servers of the safe tree and
\* the require-active-signals gate
SafeSocketsAndGate ==
    /\ pc = "ancestors"
    /\ curr \notin DOMAIN processes
    /\ safe_pids' = WithTmuxServers(safe_pids)
    /\ IF cfg.require_active_signals /\ ~have_active_signals
       THEN /\ output' = output \o << <<"warn_no_signals", 0>>, <<"skip_no_signals", 0>> >>
            /\ pc' = "skipped"
       ELSE /\ output' = IF have_active_signals THEN output
                         ELSE Say("warn_no_signals", 0)
            /\ pc' = "classify"
    /\ UNCHANGED <<inputs, os_live, fs_files, processes, children, active_sessions,
                   ev, active_panes_by_session, curr, agent_candidates, keep_pids,
                   used_pane_selection, keep_tree, kill_list, skipped_young,
                   skipped_pane_miss, idx, signals, removed_snapshots, fs_todo,
                   ENV_CACHE>>

\* lines 746-810
Classify ==
    /\ pc = "classify"
    /\ agent_candidates' = ClassifyAll
    /\ ENV_CACHE' = CacheAfter(CandidatePids)
    /\ pc' = "select"
    /\ UNCHANGED <<inputs, os_live, fs_files, processes, children, active_sessions,
                   ev, active_panes_by_session, safe_pids, curr, keep_pids,
                   used_pane_selection, keep_tree, kill_list, skipped_young,
                   skipped_pane_miss, idx, signals, output, removed_snapshots,
                   fs_todo>>

\* lines 812-925
SelectKeep ==
    /\ pc = "select"
    /\ keep_pids' = SelectKeepPids
    /\ used_pane_selection' = PaneSelectionRuns
    /\ keep_tree' = KeepTreeOf(SelectKeepPids)
    /\ idx' = 1
    /\ pc' = "decide"
    /\ UNCHANGED <<inputs, os_live, fs_files, processes, children, active_sessions,
                   ev, active_panes_by_session, safe_pids, curr, agent_candidates,
                   kill_list, skipped_young, skipped_pane_miss, signals, output,
                   removed_snapshots, fs_todo, ENV_CACHE>>

\* one iteration of the loop of lines 927-991
DecideStep ==
    /\ pc = "decide"
    /\ idx <= Len(agent_candidates)
    /\ LET proc == agent_candidates[idx]
           verdict == Decide(proc)
       IN /\ kill_list' = IF verdict = "kill"
                          THEN Append(kill_list, [pid |-> proc.pid, args |-> proc.args])
                          ELSE kill_list
          /\ skipped_young' = skipped_young + (IF verdict = "young" THEN 1 ELSE 0)
          /\ skipped_pane_miss' =
                 skipped_pane_miss + (IF verdict = "pane_miss" THEN 1 ELSE 0)
    /\ idx' = idx + 1
    /\ UNCHANGED <<inputs, os_live, fs_files, pc, processes, children,
                   active_sessions, ev, active_panes_by_session, safe_pids, curr,
                   agent_candidates, keep_pids, used_pane_selection, keep_tree,
                   signals, output, removed_snapshots, fs_todo, ENV_CACHE>>

\* lines 993-1002: the orphan report (and the dry-run listing)
Report ==
    /\ pc = "decide"
    /\ idx > Len(agent_candidates)
    /\ IF kill_list = << >>
       THEN /\ output' = Say("no_orphans", 0)
            /\ pc' = "summary"
       ELSE /\ output' = Say("found", Len(kill_list))
            /\ pc' = IF cfg.dry_run THEN "summary" ELSE "term"
    /\ idx' = 1
    /\ UNCHANGED <<inputs, os_live, fs_files, processes, children, active_sessions,
                   ev, active_panes_by_session, safe_pids, curr, agent_candidates,
                   keep_pids, used_pane_selection, keep_tree, kill_list,
                   skipped_young, skipped_pane_miss, signals, removed_snapshots,
                   fs_todo, ENV_CACHE>>

\* os.kill(pid, sig) on the host as it is now: ESRCH for a pid that is gone,
\* EPERM for a process of another user
KillOutcome(pid) ==
    IF pid \notin os_live THEN "gone"
    ELSE IF pid \in host.foreign THEN "denied"
    ELSE "sent"

\* os.kill whose every failure ends the pass
Signal_StopsOnGone(sig, next_pc) ==
    /\ idx <= Len(kill_list)
    /\ LET pid == kill_list[idx].pid
           res == KillOutcome(pid)
       IN /\ signals' = Append(signals, [pid |-> pid, sig |-> sig, res |-> res])
          /\ os_live' = IF res = "sent" /\ ~(sig = "SIGTERM" /\ pid \in host.stubborn)
                        THEN os_live \ {pid} ELSE os_live
          /\ pc' = IF res # "sent" THEN "crashed"
                   ELSE IF idx = Len(kill_list) THEN next_pc ELSE pc
    /\ idx' = idx + 1
    /\ UNCHANGED <<inputs, fs_files, processes, children, active_sessions, ev,
                   active_panes_by_session, safe_pids, curr, agent_candidates,
                   keep_pids, used_pane_selection, keep_tree, kill_list,
                   skipped_young, skipped_pane_miss, output, removed_snapshots,
                   fs_todo, ENV_CACHE>>

\* os.kill called twice for every entry
Signal_Twice(sig, next_pc) ==
    /\ idx <= Len(kill_list)
    /\ LET pid == kill_list[idx].pid
           res == KillOutcome(pid)
           entry == [pid |-> pid, sig |-> sig, res |-> res]
       IN /\ signals' = signals \o <<entry, entry>>
          /\ os_live' = IF res = "sent" /\ ~(sig = "SIGTERM" /\ pid \in host.stubborn)
                        THEN os_live \ {pid} ELSE os_live
          /\ pc' = IF res = "denied" THEN "crashed"
                   ELSE IF idx = Len(kill_list) THEN next_pc ELSE pc
    /\ idx' = idx + 1
    /\ UNCHANGED <<inputs, fs_files, processes, children, active_sessions, ev,
                   active_panes_by_session, safe_pids, curr, agent_candidates,
                   keep_pids, used_pane_selection, keep_tree, kill_list,
                   skipped_young, skipped_pane_miss, output, removed_snapshots,
                   fs_todo, ENV_CACHE>>

\* os.kill of lines 1003-1006 and 1012-1015.  ProcessLookupError is passed
\* over; PermissionError is caught by nothing and ends the pass.
Signal(sig, next_pc) ==
    /\ idx <= Len(kill_list)
    /\ LET pid == kill_list[idx].pid
           res == KillOutcome(pid)
       IN /\ signals' = Append(signals, [pid |-> pid, sig |-> sig, res |-> res])
          /\ os_live' = IF res = "sent" /\ ~(sig = "SIGTERM" /\ pid \in host.stubborn)
                        THEN os_live \ {pid} ELSE os_live
          /\ pc' = IF res = "denied" THEN "crashed"
                   ELSE IF idx = Len(kill_list) THEN next_pc ELSE pc
    /\ idx' = idx + 1
    /\ UNCHANGED <<inputs, fs_files, processes, children, active_sessions, ev,
                   active_panes_by_session, safe_pids, curr, agent_candidates,
                   keep_pids, used_pane_selection, keep_tree, kill_list,
                   skipped_young, skipped_pane_miss, output, removed_snapshots,
                   fs_todo, ENV_CACHE>>

\* one iteration of the loop of lines 997-1006 (not dry-run)
SendTerm == pc = "term" /\ Signal("SIGTERM", "pause")

\* line 1009
GracePause ==
    /\ pc = "pause"
    /\ pc' = "kill"
    /\ idx' = 1
    /\ UNCHANGED <<inputs, os_live, fs_files, processes, children, active_sessions,
                   ev, active_panes_by_session, safe_pids, curr, agent_candidates,
                   keep_pids, used_pane_selection, keep_tree, kill_list,
                   skipped_young, skipped_pane_miss, signals, output,
                   removed_snapshots, fs_todo, ENV_CACHE>>

\* one iteration of the loop of lines 1011-1015
SendKill == pc = "kill" /\ Signal("SIGKILL", "summary")

\* lines 1017-1025, and the directory listings of prune_runtime_snapshots
Summary ==
    /\ pc = "summary"
    /\ output' =
           LET young == IF skipped_young # 0
                        THEN << <<"skipped_young", skipped_young>> >> ELSE << >>
               miss == IF skipped_pane_miss # 0
                       THEN << <<"skipped_pane_miss", skipped_pane_miss>> >> ELSE << >>
           IN output \o young \o miss
    /\ fs_todo' = fs_files
    /\ removed_snapshots' = 0
    /\ pc' = "prune"
    /\ UNCHANGED <<inputs, os_live, fs_files, processes, children, active_sessions,
                   ev, active_panes_by_session, safe_pids, curr, agent_candidates,
                   keep_pids, used_pane_selection, keep_tree, kill_list,
                   skipped_young, skipped_pane_miss, idx, signals, ENV_CACHE>>

\* one snapshot file of the loops of lines 481-530
PruneStep ==
    /\ pc = "prune"
    /\ fs_todo # {}
    /\ LET f == CHOOSE x \in fs_todo : TRUE
           reached == ~PruneSkipsSession(f.session) /\ ~PaneStillActive(f)
           looked_up == reached /\ f \in fs_files /\ f.json_ok /\ f.pid > 0
           keep == f \in fs_files /\ KeptByLivePid(f)
       IN /\ fs_todo' = fs_todo \ {f}
          /\ ENV_CACHE' = IF looked_up THEN CacheAfter({f.pid}) ELSE ENV_CACHE
          /\ IF ~reached \/ keep
             THEN UNCHANGED <<fs_files, removed_snapshots>>
             ELSE IF cfg.dry_run
             THEN /\ removed_snapshots' = removed_snapshots + 1
                  /\ UNCHANGED fs_files
             ELSE IF f \in fs_files /\ ~f.locked
             THEN /\ fs_files' = fs_files \ {f}
                  /\ removed_snapshots' = removed_snapshots + 1
             ELSE UNCHANGED <<fs_files, removed_snapshots>>
    /\ UNCHANGED <<inputs, os_live, pc, processes, children, active_sessions, ev,
                   active_panes_by_session, safe_pids, curr, agent_candidates,
                   keep_pids, used_pane_selection, keep_tree, kill_list,
                   skipped_young, skipped_pane_miss, idx, signals, output>>

\* lines 1033-1039
Finish ==
    /\ pc = "prune"
    /\ fs_todo = {}
    /\ output' = (IF removed_snapshots # 0
                  THEN Say("pruned", removed_snapshots) ELSE output)
                 \o << <<"complete", 0>> >>
    /\ pc' = "done"
    /\ UNCHANGED <<inputs, os_live, fs_files, processes, children, active_sessions,
                   ev, active_panes_by_session, safe_pids, curr, agent_candidates,
                   keep_pids, used_pane_selection, keep_tree, kill_list,
                   skipped_young, skipped_pane_miss, idx, signals,
                   removed_snapshots, fs_todo, ENV_CACHE>>

(***************************************************************************)
(* A second pass on the same host.  It has read the same process table and *)
(* the same /proc entries, so its kill list and its cache are those of the *)
(* first pass; what interleaves with the first pass are its signals (lines *)
(* 997-1015) and its visits of the snapshot files (lines 481-530).         *)
(***************************************************************************)
\* the second pass leaves its decision loop, lines 993-996
PeerReport ==
    /\ peer.pc = "wait"
    /\ pc \in {"term", "pause", "kill", "summary"}
    /\ peer' = [pc |-> IF kill_list = << >> \/ cfg.dry_run THEN "summary" ELSE "term",
                idx |-> 1,
                kill |-> [i \in 1..Len(kill_list) |-> kill_list[i].pid],
                todo |-> {},
                cache |-> ENV_CACHE,
                removed |-> 0]
    /\ UNCHANGED <<cfg, host, os_live, fs_files, own>>

\* os.kill of lines 1003-1006 and 1012-1015 in the second pass
PeerSignal(sig, next_pc) ==
    /\ peer.idx <= Len(peer.kill)
    /\ LET pid == peer.kill[peer.idx]
           res == KillOutcome(pid)
       IN /\ os_live' = IF res = "sent" /\ ~(sig = "SIGTERM" /\ pid \in host.stubborn)
                        THEN os_live \ {pid} ELSE os_live
          /\ peer' = [peer EXCEPT
                        !.idx = @ + 1,
                        !.pc = IF res = "denied" THEN "crashed"
                               ELSE IF peer.idx = Len(peer.kill) THEN next_pc ELSE @]
    /\ UNCHANGED <<cfg, host, fs_files, own>>

PeerSendTerm == peer.pc = "term" /\ PeerSignal("SIGTERM", "pause")

\* line 1009 in the second pass
PeerGracePause ==
    /\ peer.pc = "pause"
    /\ peer' = [peer EXCEPT !.pc = "kill", !.idx = 1]
    /\ UNCHANGED <<cfg, host, os_live, fs_files, own>>

PeerSendKill == peer.pc = "kill" /\ PeerSignal("SIGKILL", "summary")

\* the directory listings of lines 481-492 in the second pass
PeerSummary ==
    /\ peer.pc = "summary"
    /\ peer' = [peer EXCEPT !.pc = "prune", !.todo = fs_files]
    /\ UNCHANGED <<cfg, host, os_live, fs_files, own>>

\* proc_env (lines 415-437) with the second pass's cache
PeerEnv(pid) == IF pid \in DOMAIN peer.cache THEN peer.cache[pid] ELSE ReadEnviron(pid)

\* one snapshot file of the loops of lines 481-530 in the second pass
PeerPruneStep ==
    /\ peer.pc = "prune"
    /\ peer.todo # {}
    /\ LET f == CHOOSE x \in peer.todo : TRUE
           reached == ~PruneSkipsSession(f.session) /\ ~PaneStillActive(f)
           looked_up == reached /\ f \in fs_files /\ f.json_ok /\ f.pid > 0
           keep == /\ looked_up
                   /\ PeerEnv(f.pid).session = f.session
                   /\ PeerEnv(f.pid).pane_id = Strip(f.pane_id)
           removes == reached /\ ~keep /\ ~cfg.dry_run /\ f \in fs_files /\ ~f.locked
           counts == reached /\ ~keep /\ (cfg.dry_run \/ removes)
       IN /\ fs_files' = IF removes THEN fs_files \ {f} ELSE fs_files
          /\ peer' = [peer EXCEPT
                        !.todo = @ \ {f},
                        !.cache = IF looked_up
                                  THEN [p \in DOMAIN @ \cup {f.pid} |-> PeerEnv(p)]
                                  ELSE @,
                        !.removed = IF counts THEN @ + 1 ELSE @]
    /\ UNCHANGED <<cfg, host, os_live, own>>

\* lines 1033-1039 in the second pass
PeerFinish ==
    /\ peer.pc = "prune"
    /\ peer.todo = {}
    /\ peer' = [peer EXCEPT !.pc = "done"]
    /\ UNCHANGED <<cfg, host, os_live, fs_files, own>>

Next ==
    \/ GetProcessMap
    \/ CollectEvidence
    \/ SafeRoots
    \/ AncestorStep
    \/ SafeSocketsAndGate
    \/ Classify
    \/ SelectKeep
    \/ DecideStep
    \/ Report
    \/ SendTerm
    \/ GracePause
    \/ SendKill
    \/ Summary
    \/ PruneStep
    \/ Finish

(***************************************************************************)
(* Hosts and switches a pass can meet.  A world is the input of one pass:  *)
(* the switches, the host, the processes still alive when the pass reads   *)
(* /proc, and the telemetry snapshot files.                                *)
(***************************************************************************)
ImgZellij == [comm |-> "zellij", args |-> <<"zellij">>]
ImgClaude == [comm |-> "claude", args |-> <<"claude">>]
ImgNode == [comm |-> "node", args |-> <<"node", "/opt/opencode/cli.js">>]
ImgProxy == [comm |-> "python3", args |-> <<"python3", "claude_proxy.py">>]
ImgTool == [comm |-> "python3", args |-> <<"python3", "/usr/bin/aoc-cleanup">>]
ImgShell == [comm |-> "bash", args |-> <<"bash">>]

Row(ppid, etimes, tty, img) ==
    [ppid |-> ppid, etimes |-> etimes, tty |-> tty, comm |-> img.comm, args |-> img.args]

Env(session, pane_id, instance, lease_file) ==
    [session |-> session, pane_id |-> pane_id, pane_instance_id |-> instance,
     pane_lease_file |-> lease_file]

Layout(cmds, cwds, exp_cwds, exp_ids, panes) ==
    [active_commands |-> cmds, agent_cwds |-> cwds, expected_cwds |-> exp_cwds,
     expected_ids |-> exp_ids, pane_ids |-> panes]

Snapshot(session, pane_id, pid, json_ok, locked) ==
    [session |-> session, pane_id |-> pane_id, pid |-> pid, json_ok |-> json_ok,
     locked |-> locked]

Etimes == {NoEtimes} \cup 0..MaxEtimes

MinAges == 0..MaxMinAge

DefaultCfg ==
    [dry_run |-> FALSE, require_active_signals |-> FALSE,
     skip_if_no_sessions |-> FALSE, min_process_age_secs |-> 0,
     filter_set |-> FALSE, session_filter |-> {}, pane_strict |-> FALSE]

\* a session manager (pid 1) with the tool (MyPid) running under it
BaseHost ==
    [ps |-> "ok",
     procs |-> (1 :> Row(0, 1, "?", ImgZellij)) @@ (MyPid :> Row(1, 0, "pts/0", ImgTool)),
     environ |-> (MyPid :> Env("s1", "p1", "", "")),
     cwd |-> (MyPid :> DirA),
     lease |-> Empty,
     sessions |-> {"s1"},
     curr |-> "s1",
     layouts |-> Empty,
     projects_base |-> NoPath,
     dirs |-> {},
     foreign |-> {},
     stubborn |-> {}]

\* host.snapshots: the snapshot files present when the pass starts
World(c, h, files) ==
    [cfg |-> c, host |-> [x \in DOMAIN h \cup {"snapshots"} |->
                             IF x = "snapshots" THEN files ELSE h[x]],
     live |-> DOMAIN h.procs]

\* the layout dumps of session s1 the decision worlds use: nothing, pane ids
\* only, directory evidence only, both
DecideLayouts ==
    {Empty,
     "s1" :> Layout({}, {}, Empty, Empty, {"p1"}),
     "s1" :> Layout({}, {DirA, DirB}, DirA :> 1, <<"a">> :> 1, {}),
     "s1" :> Layout({}, {DirA, DirB}, DirA :> 1, <<"a">> :> 1, {"p1"}),
     "s1" :> Layout({"claude"}, {}, Empty, Empty, {}),
     "s1" :> Layout({"claude"}, {}, Empty, Empty, {"p1"})}

\* Decision worlds: one agent (pid 20), under the session manager or not, with
\* every session / pane / lease / age / directory identity, against every
\* layout, session filter, pane-strict switch and minimum age.
DecideWorlds ==
    {World(
        [DefaultCfg EXCEPT !.filter_set = filt, !.session_filter = {"s1"},
                           !.pane_strict = strict, !.min_process_age_secs = age],
        [BaseHost EXCEPT
            !.procs = @ @@ (20 :> Row(ppid, et, "?", ImgClaude)),
            !.environ = @ @@ (20 :> Env(sess, pane,
                                        IF stale THEN "i1" ELSE "",
                                        IF stale THEN "/lease" ELSE "")),
            !.cwd = @ @@ (20 :> dir),
            !.lease = "/lease" :> "i2",
            !.layouts = lay],
        {}) :
        ppid \in {0, 1}, et \in Etimes, sess \in {"", "s1", "s2"},
        pane \in {"", "p1", "p2"}, stale \in BOOLEAN, dir \in {NoPath, DirA, DirB},
        lay \in DecideLayouts, filt \in BOOLEAN, strict \in BOOLEAN, age \in MinAges}

\* Scenario A: the table is pid 100, the session manager, and pid 200, its
\* child, a node agent (the listing does not show the tool itself)
ScenarioAHost ==
    [BaseHost EXCEPT
        !.procs = (100 :> Row(0, 1, "?", ImgZellij)) @@ (200 :> Row(100, 1, "?", ImgNode)),
        !.sessions = {}, !.curr = ""]

\* Scenario B: pid 300 an agent binary with no parent in the table
ScenarioBHost ==
    [BaseHost EXCEPT
        !.procs = (300 :> Row(0, 1, "?", ImgClaude)) @@ (MyPid :> Row(0, 0, "pts/0", ImgTool)),
        !.sessions = {}, !.curr = ""]

\* Worlds that take the pass through each of its exits: the spec's scenarios A
\* and B under every combination of the dry-run, require-active-signals and
\* skip-if-no-sessions switches, each listing outcome, an agent of another
\* user, and snapshot files.
ExitWorlds ==
    {World(
        [DefaultCfg EXCEPT !.dry_run = dry, !.require_active_signals = req,
                           !.skip_if_no_sessions = skip],
        [h EXCEPT !.ps = ps, !.foreign = IF other THEN {300} ELSE {}],
        files) :
        dry \in BOOLEAN, req \in BOOLEAN, skip \in BOOLEAN,
        h \in {ScenarioAHost, ScenarioBHost}, ps \in {"ok", "fail", "error"},
        other \in BOOLEAN,
        files \in {{}, {Snapshot("s1", "p1 ", 0, FALSE, FALSE),
                        Snapshot("s1", "p2", MyPid, TRUE, FALSE)}}}

NoPeer == [pc |-> "absent"]

PeerWaiting == [pc |-> "wait"]

StartOf(worlds, second) ==
    /\ peer = second
    /\ \E w \in worlds :
          /\ cfg = w.cfg
          /\ host = w.host
          /\ os_live = w.live
          /\ fs_files = w.host.snapshots
    /\ pc = "start"
    /\ processes = Empty
    /\ children = Empty
    /\ active_sessions = {}
    /\ ev = EmptyEvidence
    /\ active_panes_by_session = Empty
    /\ safe_pids = {}
    /\ curr = 0
    /\ agent_candidates = << >>
    /\ keep_pids = {}
    /\ used_pane_selection = FALSE
    /\ keep_tree = {}
    /\ kill_list = << >>
    /\ skipped_young = 0
    /\ skipped_pane_miss = 0
    /\ idx = 1
    /\ signals = << >>
    /\ output = << >>
    /\ removed_snapshots = 0
    /\ fs_todo = {}
    /\ ENV_CACHE = Empty

\* a pass that runs alone
InitFrom(worlds) == StartOf(worlds, NoPeer)

\* Keep-selection worlds: agents 50 and 60 of every kind in every directory,
\* with or without agent 70, against every expected_cwds counter over an
\* absolute directory, a directory nested in it and a relative hint.
KeepCounters ==
    {c \in [{DirA, DirAB, RelB} -> 0..MaxCount] : TRUE}

\* the Counter of the entries with a positive count
Positive(c) == [d \in {k \in DOMAIN c : c[k] > 0} |-> c[d]]

KeepLayout(c) ==
    IF DOMAIN Positive(c) = {} THEN Empty
    ELSE "s1" :> Layout({}, DOMAIN Positive(c), Positive(c),
                        <<"a">> :> CounterSum(Positive(c)), {})

KeepImages == {ImgClaude, ImgNode, ImgProxy}

KeepWorlds ==
    {World(
        DefaultCfg,
        [BaseHost EXCEPT
            !.procs = @ @@ (50 :> Row(0, 1, "?", i50)) @@ (60 :> Row(0, 1, "?", i60))
                        @@ [p \in {70 : i \in third} |->
                              Row(50, 1, "?", CHOOSE i \in third : TRUE)],
            !.environ = @ @@ (IF paned
                              THEN (50 :> Env("s2", "p1", "", ""))
                                   @@ (60 :> Env("s2", "p2", "", ""))
                              ELSE Empty),
            !.cwd = @ @@ (50 :> d50) @@ (60 :> d60) @@ (70 :> DirAB),
            !.layouts = KeepLayout(c)],
        {}) :
        i50 \in KeepImages, i60 \in KeepImages,
        third \in {{}, {ImgClaude}, {ImgProxy}}, paned \in BOOLEAN,
        d50 \in {NoPath, DirA, DirAB, DirCB}, d60 \in {NoPath, DirA, DirAB, DirCB},
        c \in KeepCounters}

\* Safe-tree worlds: the session manager (pid 1) listed or not, a shell (pid 8),
\* the tool listed or not, an agent (pid 20), with every parent link that makes
\* a tree, under a listing that works or fails.
TreeWorlds ==
    {World(
        [DefaultCfg EXCEPT !.pane_strict = strict],
        [BaseHost EXCEPT
            !.ps = ps,
            !.procs = (IF root THEN 1 :> Row(0, 1, "?", ImgZellij) ELSE Empty)
                      @@ (8 :> Row(p8, 1, "pts/0", ImgShell))
                      @@ (IF listed THEN MyPid :> Row(p9, 0, "pts/0", ImgTool) ELSE Empty)
                      @@ (20 :> Row(p20, 1, "pts/0", ImgClaude)),
            !.environ = Empty,
            !.cwd = Empty,
            !.layouts = lay],
        {}) :
        strict \in BOOLEAN, ps \in {"ok", "fail"}, root \in BOOLEAN, listed \in BOOLEAN,
        p8 \in {0, 1, 20}, p9 \in {0, 1, 8, 20, MyPid}, p20 \in {0, 1, 8, MyPid},
        lay \in {Empty, "s1" :> Layout({}, {}, Empty, Empty, {"p1"})}}

\* a table whose parent links form no cycle: every chain of parents leaves it
RECURSIVE LeavesTable(_, _, _)
\* Multiplexer worlds: a tmux client (pid 40) inside or outside the safe tree,
\* a tmux process (pid 41) that is or is not a detached server, on the same
\* socket or not, with a child (pid 42) that is an agent or a client of a
\* second socket, whose server is pid 43 with the agent pid 44 under it.
ImgTmuxClient(flag, socket) ==
    [comm |-> "tmux", args |-> <<"tmux", flag, socket, "attach">>]

ImgTmuxServer(flag, socket, daemon) ==
    [comm |-> "tmux",
     args |-> <<"tmux", flag, socket>> \o (IF daemon THEN <<"-D">> ELSE << >>)]

TmuxWorlds ==
    {World(
        DefaultCfg,
        [BaseHost EXCEPT
            !.procs = @ @@ (40 :> Row(p40, 1, "pts/1", ImgTmuxClient(f40, "a")))
                        @@ (41 :> Row(0, 1, "?", ImgTmuxServer("-L", s41, d41)))
                        @@ (42 :> Row(41, 1, "pts/2", i42))
                        @@ (43 :> Row(0, 1, "?", ImgTmuxServer("-L", "b", TRUE)))
                        @@ (44 :> Row(43, 1, "pts/3", ImgClaude)),
            !.environ = Empty,
            !.cwd = Empty],
        {}) :
        p40 \in {0, 1}, f40 \in {"-L", "-S"}, s41 \in {"a", "b"}, d41 \in BOOLEAN,
        i42 \in {ImgClaude, ImgTmuxClient("-L", "b")}}

LeavesTable(procs, p, fuel) ==
    IF p \notin DOMAIN procs THEN TRUE
    ELSE IF fuel = 0 THEN FALSE
    ELSE LeavesTable(procs, procs[p].ppid, fuel - 1)

IsForest(procs) ==
    \A p \in DOMAIN procs : LeavesTable(procs, p, Cardinality(DOMAIN procs))

\* Execution worlds: two orphan agents (pids 20 and 30), each alive, gone
\* since the listing, deaf to SIGTERM or owned by another user; snapshot files
\* that are live, stale, malformed or undeletable.
ExecSnapshots ==
    {Snapshot("s1", "p1", 0, FALSE, FALSE),
     Snapshot("s2", "p2", 20, TRUE, FALSE),
     Snapshot("s1", "p3", 30, TRUE, TRUE)}

ExecWorlds ==
    {[World(
        [DefaultCfg EXCEPT !.dry_run = dry, !.filter_set = filt,
                           !.session_filter = {"s1"},
                           !.require_active_signals = req],
        [BaseHost EXCEPT
            !.ps = ps,
            !.procs = @ @@ (20 :> Row(0, 1, "?", ImgClaude))
                        @@ (30 :> Row(0, 1, "?", ImgProxy)),
            !.environ = @ @@ (20 :> Env("s2", "p2", "", ""))
                          @@ (IF f30 = "foreign" THEN Empty
                              ELSE 30 :> Env("", "", "", "")),
            !.cwd = @ @@ (20 :> DirA) @@ (IF f30 = "foreign" THEN Empty ELSE 30 :> DirB),
            !.layouts = lay,
            !.foreign = IF f30 = "foreign" THEN {30} ELSE {},
            !.stubborn = IF f20 = "stubborn" THEN {20} ELSE {}],
        files)
      EXCEPT !.live = @ \ ((IF f20 = "gone" THEN {20} ELSE {})
                           \cup (IF f30 = "gone" THEN {30} ELSE {}))] :
        dry \in BOOLEAN, filt \in BOOLEAN, req \in BOOLEAN, ps \in {"ok", "fail"},
        f20 \in {"alive", "stubborn", "gone"}, f30 \in {"alive", "foreign", "gone"},
        lay \in {Empty, "s1" :> Layout({}, {}, Empty, Empty, {"p1"}),
                 "s1" :> Layout({}, {DirB}, DirB :> 1, <<"b">> :> 1, {"p1"})},
        files \in SUBSET ExecSnapshots}

\* Pane-strict worlds: three candidates (pids 50, 60, 70) in directory /a, with
\* or without a terminal, of every kind, spread over the panes of sessions s1
\* and s2 or carrying no pane id at all, 70 a child of 50 or not, under
\* pane-strict mode with pane ids alone, a directory counter or an identity
\* counter in the layout.
PaneLayouts ==
    {"s1" :> Layout({}, {}, Empty, Empty, {"p1"})}
    \cup {"s1" :> Layout({}, {DirA}, DirA :> n, Empty, {"p1"}) : n \in 1..MaxCount}
    \cup {"s1" :> Layout({}, {}, Empty, <<"a">> :> 1, {})}
    \cup {"s1" :> Layout({}, {DirB}, DirB :> 1, <<"a">> :> 1, {"p1"})}

PaneTtys == {"?", "pts/5"}

PaneWorlds ==
    {World(
        [DefaultCfg EXCEPT !.pane_strict = TRUE],
        [BaseHost EXCEPT
            !.procs = @ @@ (50 :> Row(0, 1, t50, i50)) @@ (60 :> Row(0, 1, t60, i60))
                        @@ (70 :> Row(p70, 1, t70, i70)),
            !.environ = @ @@ (50 :> Env(s50, IF paned THEN "p1" ELSE "", "", ""))
                          @@ (60 :> Env(s60, IF paned THEN "p2" ELSE "", "", ""))
                          @@ (70 :> Env("s1", IF paned THEN q70 ELSE "", "", "")),
            !.cwd = @ @@ (50 :> DirA) @@ (60 :> DirA) @@ (70 :> DirA),
            !.layouts = lay],
        {}) :
        t50 \in PaneTtys, t60 \in PaneTtys, t70 \in PaneTtys,
        i50 \in KeepImages, i60 \in {ImgClaude, ImgNode}, i70 \in {ImgNode, ImgProxy},
        s50 \in {"s1", ""}, s60 \in {"s1", "s2"}, q70 \in {"p1", "p3"},
        p70 \in {0, 50}, paned \in BOOLEAN, lay \in PaneLayouts}

InitPane == InitFrom(PaneWorlds \cup ExitWorlds)

SpecPane == InitPane /\ [][Next]_vars

Init == InitFrom(DecideWorlds \cup ExitWorlds)

Spec == Init /\ [][Next]_vars

InitKeep == InitFrom(KeepWorlds \cup ExitWorlds)

SpecKeep == InitKeep /\ [][Next]_vars

\* Search worlds: process 40, under the session manager or not, is a search
\* for agents (`pgrep -f claude`, or a shell pipeline holding `grep claude`)
\* or a protected command started with an agent's name; 41 is an agent.
ImgPgrep == [comm |-> "pgrep", args |-> <<"pgrep", "-f", "claude">>]

ImgPipeGrep == [comm |-> "sh", args |-> <<"sh", "-c", "ps", "aux", "|", "grep", "claude">>]

ImgLaunch == [comm |-> "aoc-launch", args |-> <<"aoc-launch", "claude">>]

SearchWorlds ==
    {World([DefaultCfg EXCEPT !.dry_run = dry],
           [BaseHost EXCEPT
               !.procs = @ @@ (40 :> Row(p40, 1, "?", i40)) @@ (41 :> Row(0, 1, "?", ImgClaude)),
               !.environ = Empty, !.cwd = Empty], {}) :
        dry \in BOOLEAN, p40 \in {0, 1}, i40 \in {ImgPgrep, ImgPipeGrep, ImgLaunch}}

InitTree ==
    InitFrom({w \in TreeWorlds : IsForest(w.host.procs)} \cup TmuxWorlds
             \cup SearchWorlds \cup ExitWorlds)

SpecTree == InitTree /\ [][Next]_vars

\* Two passes at once: agents 20 (in pane p2 of session s2) and 30 end on the
\* kill list of both; 20 may survive SIGTERM, 30 may belong to another user;
\* any of the three snapshot files may exist.
TwoPassWorlds ==
    {World(
        [DefaultCfg EXCEPT !.dry_run = dry],
        [BaseHost EXCEPT
            !.procs = @ @@ (20 :> Row(0, 1, "?", ImgClaude))
                        @@ (30 :> Row(0, 1, "?", ImgProxy)),
            !.environ = @ @@ (20 :> Env("s2", "p2", "", ""))
                          @@ (IF f30 = "foreign" THEN Empty
                              ELSE 30 :> Env("", "", "", "")),
            !.cwd = @ @@ (20 :> DirA) @@ (IF f30 = "foreign" THEN Empty ELSE 30 :> DirB),
            !.layouts = lay,
            !.foreign = IF f30 = "foreign" THEN {30} ELSE {},
            !.stubborn = IF f20 = "stubborn" THEN {20} ELSE {}],
        files) :
        dry \in BOOLEAN, f20 \in {"alive", "stubborn"}, f30 \in {"alive", "foreign"},
        lay \in {Empty, "s1" :> Layout({}, {}, Empty, Empty, {"p1"})},
        files \in SUBSET ExecSnapshots}

InitTwoPasses == StartOf(TwoPassWorlds \cup ExitWorlds, PeerWaiting)

\* Layout worlds: session s1 dumps a text of up to MaxLines lines, each a tab
\* line or a pane line with or without an identity name ("Agent [a]" or
\* "aoc:b") and with or without a working directory (/a, or b relative to the
\* projects base); the projects base is /a, where the project directory /a/b
\* exists, or is not configured.
NameAgentA == AgentPrefix \o <<"a", "]">>

NameAocB == AocPrefix \o <<"b">>

LayoutLines ==
    {LayoutLine("t", << >>, << >>, "")}
    \cup {LayoutLine("", << >>, c, "") : c \in {<< >>, DirA, RelB}}
    \cup {LayoutLine("", NameAgentA, c, "") : c \in {<< >>, DirA}}
    \cup {LayoutLine("", NameAocB, c, "") : c \in {<< >>, RelB}}

RECURSIVE TextsOf(_)
TextsOf(n) ==
    IF n = 0 THEN {<< >>}
    ELSE LET shorter == TextsOf(n - 1)
         IN shorter \cup {Append(t, l) : t \in {s \in shorter : Len(s) = n - 1},
                                         l \in LayoutLines}

LayoutWorlds ==
    {World(DefaultCfg,
           [BaseHost EXCEPT
               !.layouts = "s1" :> [text |-> text, pane_ids |-> {}],
               !.projects_base = base,
               !.dirs = {DirAB}],
           {}) :
        text \in TextsOf(MaxLines), base \in {NoPath, DirA}}

InitLayout == InitFrom(LayoutWorlds \cup ExitWorlds)

SpecLayout == InitLayout /\ [][Next]_vars

\* Every table of TreeWorlds, those with a cycle of parent links and those in
\* which the tool's row names itself as its parent included.  The loops of
\* the pass are run to their end: a step that can be taken is taken.
InitAnyTable == InitFrom(TreeWorlds \cup ExitWorlds)

SpecAnyTable == InitAnyTable /\ [][Next]_vars /\ WF_vars(Next)

InitExec == InitFrom(ExecWorlds \cup ExitWorlds)

SpecExec == InitExec /\ [][Next]_vars

\* the first pass together with a second pass
NextTwoPasses ==
    \/ Next
    \/ PeerReport
    \/ PeerSendTerm
    \/ PeerGracePause
    \/ PeerSendKill
    \/ PeerSummary
    \/ PeerPruneStep
    \/ PeerFinish

SpecTwoPasses == InitTwoPasses /\ [][NextTwoPasses]_vars

(***************************************************************************)
(* Properties.                                                             *)
(***************************************************************************)
\* the loop of lines 927-991 has decided the i-th candidate
DecidedAt(i) == pc # "select" /\ (pc = "decide" => i < idx)

LoopDone == pc \in {"term", "pause", "kill", "summary", "prune", "done", "crashed"}
            /\ agent_candidates # << >>

Reported(tag) == \E i \in 1..Len(output) : output[i][1] = tag

\* the candidate's recorded (session, pane_id) is a pane of the active-pane index
ExactPaneMatch(c) ==
    /\ c.session # ""
    /\ c.pane_id # ""
    /\ c.session \in DOMAIN active_panes_by_session
    /\ c.pane_id \in active_panes_by_session[c.session]

\* the candidate has a pane-instance id and its lease file names another owner
\* or cannot be read
LeaseFlagged(c) ==
    /\ c.pane_instance_id # ""
    /\ c.pane_lease_file # ""
    /\ \/ c.pane_lease_file \notin DOMAIN host.lease
       \/ host.lease[c.pane_lease_file] # c.pane_instance_id

\* C1 as stated: in every mode and any lease state, a candidate whose
\* (session, pane_id) exactly matches a live pane is never in the kill list.
C1_Original ==
    \A c \in Candidates : ExactPaneMatch(c) => c.pid \notin KillPids

\* C1, amended: a candidate whose (session, pane_id) exactly matches a live pane
\* and that has no lease-instance mismatch is never in the kill list, in every
\* mode (pane-strict or not, session filter or not, any minimum age).
C1_PaneMatchRetained ==
    \A c \in Candidates :
        ExactPaneMatch(c) /\ ~LeaseFlagged(c) => c.pid \notin KillPids

\* a pass under pane-strict with evidence, a session filter and a minimum age
\* has finished and spared an old agent outside the safe tree whose pane is live
\* (rule 4 would have killed it had the pane id been another)
C1_Witness ==
    /\ pc = "done"
    /\ StrictWithEvidence
    /\ cfg.filter_set
    /\ cfg.min_process_age_secs > 0
    /\ \E c \in Candidates :
          /\ ExactPaneMatch(c)
          /\ ~LeaseFlagged(c)
          /\ c.pid \notin safe_pids
          /\ c.etimes >= cfg.min_process_age_secs
          /\ c.pid \notin KillPids

\* C2 as stated: after the kill-decision loop the kill list holds no pid of
\* safe_pids and no pid of keep_tree.
C2_Original ==
    LoopDone => KillPids \cap (safe_pids \cup keep_tree) = {}

\* C2, amended: after the kill-decision loop, a kill-list pid that was killed
\* neither for a lease mismatch (rule 2) nor as a pane-miss (rule 4) is outside
\* keep_tree, and is outside safe_pids unless pane-strict with evidence is in
\* force or a session filter is set and the candidate names no session.
C2_KillListDisjoint ==
    LoopDone =>
        \A c \in Candidates :
            c.pid \in KillPids /\ ~LeaseFlagged(c) /\ ~PaneMiss(c) =>
                /\ c.pid \notin keep_tree
                /\ c.pid \in safe_pids =>
                       StrictWithEvidence \/ (cfg.filter_set /\ c.session = "")

\* a finished pass spared an agent that only its keep_tree membership protects:
\* not safe, its session not active, no hint matching, no minimum age
C2_Witness ==
    /\ pc = "done"
    /\ cfg.min_process_age_secs = 0
    /\ \E c \in Candidates :
          /\ c.pid \in keep_tree
          /\ c.pid \notin safe_pids
          /\ ~LeaseFlagged(c)
          /\ ~PaneMiss(c)
          /\ ~SessionRetained(c)
          /\ ~ActiveHit(c)
          /\ c.pid \notin KillPids

\* C3 as stated: every candidate flagged with a lease-instance mismatch is in
\* the kill list, whatever the session filter.
C3_Original ==
    \A i \in 1..Len(agent_candidates) :
        DecidedAt(i) /\ LeaseFlagged(agent_candidates[i]) =>
            agent_candidates[i].pid \in KillPids

\* C3, amended: every candidate flagged with a lease-instance mismatch that the
\* session filter does not exclude (rule 1) is in the kill list, whatever its
\* safe-tree membership, keep-tree membership, pane match, session or age.
C3_LeaseMismatchKilled ==
    \A i \in 1..Len(agent_candidates) :
        /\ DecidedAt(i)
        /\ LeaseFlagged(agent_candidates[i])
        /\ ~FilterExcluded(agent_candidates[i])
        => agent_candidates[i].pid \in KillPids

\* a finished pass killed a lease-mismatched agent that is in the safe tree, in
\* keep_tree and on a live pane
C3_Witness ==
    /\ pc = "done"
    /\ \E c \in Candidates :
          /\ LeaseFlagged(c)
          /\ c.pid \in safe_pids
          /\ c.pid \in keep_tree
          /\ ExactPaneMatch(c)
          /\ c.pid \in KillPids

\* lines 698-710 have run: safe_pids is final
SafeDone ==
    \/ pc \in {"classify", "select", "decide", "term", "pause", "kill", "summary",
               "prune", "done"}
    \/ pc = "skipped" /\ Reported("skip_no_signals")
    \/ pc = "crashed" /\ signals # << >>

\* p and the pids reached from it through the parent pids the table lists
RECURSIVE AncestorChain(_, _, _)
AncestorChain(procs, p, fuel) ==
    IF p \notin DOMAIN procs \/ fuel = 0 THEN {}
    ELSE {p} \cup AncestorChain(procs, procs[p].ppid, fuel - 1)

VisibleAncestry == AncestorChain(processes, MyPid, Cardinality(DOMAIN processes))

\* C4 as stated: for every process table, also an empty one and one that does
\* not list the tool's own pid, safe_pids contains the tool's own pid and every
\* visible ancestor.
C4_Original ==
    SafeDone => MyPid \in safe_pids /\ VisibleAncestry \subseteq safe_pids

\* C4, amended: safe_pids contains the tool's own pid exactly when the process
\* table lists it, and then every ancestor reached from it through parent pids
\* the table lists; for an empty table or one without the tool's row the walk
\* adds nothing.
C4_OwnAncestrySafe ==
    SafeDone =>
        /\ MyPid \in safe_pids <=> MyPid \in DOMAIN processes
        /\ VisibleAncestry \subseteq safe_pids

\* a finished pass on a table without session manager in which the tool has two
\* listed ancestors: the three pids are safe by the walk alone
C4_Witness ==
    /\ pc = "done"
    /\ zellij_pids = {}
    /\ Cardinality(VisibleAncestry) = 3
    /\ safe_pids = VisibleAncestry

\* p, or a listed ancestor of p, is a session-manager process
RECURSIVE UnderRoot(_, _, _)
UnderRoot(procs, p, fuel) ==
    /\ p \in DOMAIN procs
    /\ \/ procs[p].comm = "zellij"
       \/ fuel > 0 /\ UnderRoot(procs, procs[p].ppid, fuel - 1)

AllCandidatesUnderRoot ==
    \A p \in CandidatePids : UnderRoot(processes, p, Cardinality(DOMAIN processes))

NoEvidenceNoFilterNoMismatch ==
    /\ pc \notin {"start", "sessions"}
    /\ ev = EmptyEvidence
    /\ DOMAIN active_panes_by_session = {}
    /\ ~cfg.filter_set
    /\ \A c \in Candidates : ~LeaseFlagged(c)

\* C10 as stated: with no layout evidence, no session filter and no lease
\* mismatch, every candidate under a session-manager root is in safe_pids and
\* not in the kill list, and when all candidates are such the pass ends with an
\* empty kill list and the report that no orphan processes were found.
C10_Original ==
    NoEvidenceNoFilterNoMismatch =>
        /\ \A c \in Candidates :
              UnderRoot(processes, c.pid, Cardinality(DOMAIN processes)) =>
                  c.pid \in safe_pids /\ c.pid \notin KillPids
        /\ pc \in {"done", "skipped"} /\ AllCandidatesUnderRoot =>
              kill_list = << >> /\ Reported("no_orphans")

\* C10, amended: with no layout evidence, no session filter and no lease
\* mismatch, every candidate under a session-manager root is in safe_pids and
\* not in the kill list; when all candidates are such the kill list is empty,
\* and the pass reports that no orphan processes were found unless it is
\* skipped (require-active-signals, or skip-if-no-sessions with no session).
C10_RootDescendantsSafe ==
    NoEvidenceNoFilterNoMismatch =>
        /\ \A c \in Candidates :
              UnderRoot(processes, c.pid, Cardinality(DOMAIN processes)) =>
                  c.pid \in safe_pids /\ c.pid \notin KillPids
        /\ AllCandidatesUnderRoot =>
              /\ kill_list = << >>
              /\ pc = "done" => Reported("no_orphans")
              /\ pc = "skipped" =>
                     \/ cfg.require_active_signals
                     \/ cfg.skip_if_no_sessions /\ host.sessions = {}

\* Scenario A has run to its end: safe_pids = {100, 200}, nothing to kill, the
\* report that no orphan processes were found
C10_Witness ==
    /\ pc = "done"
    /\ NoEvidenceNoFilterNoMismatch
    /\ safe_pids = {100, 200}
    /\ {c.pid : c \in Candidates} = {200}
    /\ kill_list = << >>
    /\ Reported("no_orphans")

\* lines 812-922 have run: keep_pids and keep_tree are final
KeepDone ==
    \/ pc \in {"decide", "term", "pause", "kill", "summary", "prune", "done"}
    \/ pc = "crashed" /\ signals # << >>

\* the directory-count selection of lines 876-897 is the one that ran
DirectoryCountRan ==
    KeepDone /\ ~used_pane_selection /\ DOMAIN ev.expected_cwds # {}

KeptMatching(d) == {c \in Candidates : c.pid \in keep_pids /\ cwd_matches(c.cwd, d)}

\* the kept candidates that match d and no other entry of the counter
KeptMatchingOnly(d) ==
    {c \in KeptMatching(d) :
        \A h \in DOMAIN ev.expected_cwds \ {d} : ~cwd_matches(c.cwd, h)}

\* C5 as stated: for every entry expected_cwds[d] = N, nested directories
\* included, at most N candidates whose working directory matches d are in
\* keep_pids.
C5_Original ==
    DirectoryCountRan =>
        \A d \in DOMAIN ev.expected_cwds :
            Cardinality(KeptMatching(d)) <= ev.expected_cwds[d]

\* C5, amended: for every entry expected_cwds[d] = N, at most N of the
\* candidates that match d and no other entry are in keep_pids, every kept
\* candidate matches some entry, and keep_pids holds no more pids than the sum
\* of the counts.
C5_AtMostCountKept ==
    DirectoryCountRan =>
        /\ \A d \in DOMAIN ev.expected_cwds :
              Cardinality(KeptMatchingOnly(d)) <= ev.expected_cwds[d]
        /\ \A p \in keep_pids :
              \E c \in Candidates, d \in DOMAIN ev.expected_cwds :
                  c.pid = p /\ cwd_matches(c.cwd, d)
        /\ Cardinality(keep_pids) <= CounterSum(ev.expected_cwds)

\* a counter of two entries, one of them with count 1 and two candidates
\* matching it alone: one of the two is kept and the other is not
C5_Witness ==
    /\ pc = "done"
    /\ DirectoryCountRan
    /\ Cardinality(DOMAIN ev.expected_cwds) = 2
    /\ \E d \in DOMAIN ev.expected_cwds :
          /\ ev.expected_cwds[d] = 1
          /\ Cardinality(KeptMatchingOnly(d)) = 1
          /\ \E c \in Candidates :
                /\ c.pid \notin keep_pids
                /\ cwd_matches(c.cwd, d)
                /\ \A h \in DOMAIN ev.expected_cwds \ {d} : ~cwd_matches(c.cwd, h)

KindPriority(kind) ==
    CASE kind = "agent_bin" -> 0
      [] kind = "agent_node" -> 1
      [] OTHER -> 2

\* C6: directory-count selection prefers agent_bin over agent_node over other,
\* ties broken by higher pid: for every hint d, no candidate matching d is left
\* out of d's selection while the selection keeps a matching candidate of
\* lower-priority kind, or of the same kind with a lower pid; what d's selection
\* keeps is in keep_pids.
C6_PreferenceOrder ==
    DirectoryCountRan =>
        \A d \in DOMAIN ev.expected_cwds :
            /\ CwdSelection(d) \subseteq keep_pids
            /\ \A a, b \in CwdMatches(d) :
                  a.pid \notin CwdSelection(d) /\ b.pid \in CwdSelection(d) =>
                      /\ KindPriority(b.kind) <= KindPriority(a.kind)
                      /\ b.kind = a.kind => b.pid > a.pid

\* Scenario C: one entry of count 1, agent_bin pid 50 and kind-other pid 60 in
\* that directory; 50 is kept and 60 is not
C6_Witness ==
    /\ pc = "done"
    /\ DirectoryCountRan
    /\ \E d \in DOMAIN ev.expected_cwds :
          /\ DOMAIN ev.expected_cwds = {d}
          /\ ev.expected_cwds[d] = 1
          /\ {c.pid : c \in CwdMatches(d)} = {50, 60}
          /\ \E a, b \in CwdMatches(d) :
                /\ a.pid = 50 /\ a.kind = "agent_bin"
                /\ b.pid = 60 /\ b.kind = "other"
    /\ keep_pids = {50}

\* the number a line of the output reports, 0 when the line is not printed
ReportedCount(tag) ==
    IF Reported(tag)
    THEN output[CHOOSE i \in 1..Len(output) : output[i][1] = tag][2]
    ELSE 0

\* the pass is over after it has reached the orphan report
PassOver == pc = "done" \/ (pc = "crashed" /\ signals # << >>)

\* the snapshot files a dry-run pass counts as pruned
StaleSnapshots == {f \in host.snapshots : Stale(f)}

\* C7 as stated: a dry-run pass sends no signal and deletes no snapshot file,
\* and a pass, dry-run or not, reports the same counts on the same inputs:
\* the orphans found (the length of the kill list), the skipped-young and
\* skipped-pane-miss counts, and the number of stale snapshots, which is what
\* the dry-run pass reports.
C7_Original ==
    /\ cfg.dry_run => signals = << >> /\ fs_files = host.snapshots
    /\ PassOver =>
          /\ ReportedCount("found") = Len(kill_list)
          /\ ReportedCount("skipped_young") = skipped_young
          /\ ReportedCount("skipped_pane_miss") = skipped_pane_miss
          /\ ReportedCount("pruned") = Cardinality(StaleSnapshots)

\* C8: when the process listing fails the process table is empty, no process
\* is an agent candidate, the kill list is empty and no signal is sent, whatever
\* the layout, pane and session evidence is.
C8_FailedListingKillsNothing ==
    host.ps = "fail" =>
        /\ processes = Empty
        /\ CandidatePids = {}
        /\ agent_candidates = << >>
        /\ kill_list = << >>
        /\ signals = << >>

\* a pass with layout evidence and a session filter on a host that runs agent
\* processes, whose listing failed: it ends with nothing found
C8_Witness ==
    /\ pc = "done"
    /\ host.ps = "fail"
    /\ {20, 30} \subseteq os_live
    /\ ev # EmptyEvidence
    /\ DOMAIN active_panes_by_session # {}
    /\ cfg.filter_set
    /\ ~cfg.dry_run
    /\ Reported("no_orphans")

\* C9 as stated: a termination signal that fails, because the target is gone or
\* because the OS refuses it, never aborts the pass.
C9_Original ==
    \A i \in 1..Len(signals) : signals[i].res # "sent" => pc # "crashed"

\* the layout collector has run and yielded no active command, no directory
\* hint, no expected_cwds entry and no expected_ids entry
NoActiveSignals ==
    /\ pc \notin {"start", "sessions"}
    /\ ~(pc = "crashed" /\ signals = << >>)
    /\ ev.active_commands = {}
    /\ ev.agent_cwds = {}
    /\ DOMAIN ev.expected_cwds = {}
    /\ DOMAIN ev.expected_ids = {}

\* C11: when require-active-signals is set and the layout collector yields no
\* active command, no directory hint, no expected_cwds entry and no expected_ids
\* entry, the pass skips cleanup: no candidate is classified, the kill list stays
\* empty, no signal is sent and no snapshot file is deleted, whatever the process
\* table and the telemetry directory contain.
C11_RequireSignalsSkips ==
    cfg.require_active_signals /\ NoActiveSignals =>
        /\ pc \in {"roots", "ancestors", "skipped"}
        /\ agent_candidates = << >>
        /\ kill_list = << >>
        /\ signals = << >>
        /\ fs_files = host.snapshots

\* a pass that is not a dry run, on a table with two orphan agents, pane ids in
\* the layout and snapshot files on disk, has been skipped at the gate
C11_Witness ==
    /\ pc = "skipped"
    /\ Reported("skip_no_signals")
    /\ cfg.require_active_signals
    /\ ~cfg.dry_run
    /\ NoActiveSignals
    /\ DOMAIN active_panes_by_session # {}
    /\ {20, 30} \subseteq CandidatePids
    /\ Cardinality(fs_files) = 3

\* neither the command nor the directory of the candidate matches a hint of the
\* layout evidence
MatchesNoHint(c) ==
    /\ \A cmd \in ev.active_commands :
          ~cmd_matches(proc_cmd(c.args, c.comm), cmd) /\ ~CmdInArgs(cmd, c.args)
    /\ \A ac \in ev.agent_cwds : ~cwd_matches(c.cwd, ac)

\* C12: when require-active-signals is unset and no minimum age is configured, a
\* candidate the loop has decided that is not in safe_pids, not in keep_tree, has
\* neither a session nor a pane id in its environment and matches no
\* active-command or directory hint is in the kill list, also when the table
\* has no session-manager process.
C12_UnprotectedKilled ==
    \A i \in 1..Len(agent_candidates) :
        LET c == agent_candidates[i]
        IN /\ DecidedAt(i)
           /\ ~cfg.require_active_signals
           /\ cfg.min_process_age_secs = 0
           /\ c.pid \notin safe_pids
           /\ c.pid \notin keep_tree
           /\ c.session = ""
           /\ c.pane_id = ""
           /\ MatchesNoHint(c)
           => c.pid \in KillPids

\* Scenario B has run to its end: no session-manager process, the warning is
\* printed and pid 300 is in the kill list
C12_Witness ==
    /\ pc = "done"
    /\ ~cfg.require_active_signals
    /\ zellij_pids = {}
    /\ Reported("warn_no_zellij")
    /\ \E c \in Candidates : c.pid = 300 /\ c.session = "" /\ c.pane_id = ""
    /\ KillPids = {300}

\* S with the listed processes whose parent is in it, fuel times over
RECURSIVE ChildClosure(_, _)
ChildClosure(S, fuel) ==
    IF fuel = 0 THEN S
    ELSE ChildClosure(S \cup {p \in DOMAIN processes : processes[p].ppid \in S},
                      fuel - 1)

\* C13: keep_tree is exactly the descendant closure of keep_pids: every kept
\* pid, every process reachable from a kept pid through child links, and
\* nothing else; it is empty when keep_pids is empty.
C13_KeepTreeIsClosure ==
    KeepDone =>
        /\ keep_tree = ChildClosure(keep_pids, Cardinality(DOMAIN processes))
        /\ keep_pids = {} => keep_tree = {}

\* one candidate is kept and its child, which is not kept itself, is in the
\* keep tree with it
C13_Witness ==
    /\ pc = "done"
    /\ keep_pids = {50}
    /\ keep_tree = {50, 70}
    /\ processes[70].ppid = 50

Smaller(a, b) == IF a < b THEN a ELSE b

\* C14 as stated: for each expected_cwds entry (d, N) the candidates kept for d
\* are exactly min(N, number of candidates matching d), also when the matching
\* candidates are of mixed kinds.
C14_Original ==
    DirectoryCountRan =>
        \A d \in DOMAIN ev.expected_cwds :
            Cardinality(CwdSelection(d)) =
                Smaller(ev.expected_cwds[d], Cardinality(CwdMatches(d)))

\* rules 1-4 leave the candidate undecided: it is not filter-excluded, has no
\* lease mismatch, no pane match and is no pane-miss
PastRule4(c) ==
    /\ ~FilterExcluded(c)
    /\ ~LeaseFlagged(c)
    /\ ~ExactPaneMatch(c)
    /\ ~PaneMiss(c)

ReachesRule8(c) ==
    /\ PastRule4(c)
    /\ ~SafeRetained(c)
    /\ c.pid \notin keep_tree
    /\ ~SessionRetained(c)

CommandHint(c) ==
    \E cmd \in ev.active_commands :
        cmd_matches(proc_cmd(c.args, c.comm), cmd) \/ CmdInArgs(cmd, c.args)

DirectoryHint(c) == \E ac \in ev.agent_cwds : cwd_matches(c.cwd, ac)

\* rule 9 retains the candidate
Young(c) == cfg.min_process_age_secs > 0 /\ BelowMinAge(c)

\* C16 as stated: a candidate whose environment carries both a session and a
\* pane id and that reaches rule 8 is not retained because its command or its
\* directory matches a hint: rules 9 and 10 decide it.
C16_Original ==
    \A i \in 1..Len(agent_candidates) :
        LET c == agent_candidates[i]
        IN DecidedAt(i) /\ c.session # "" /\ c.pane_id # "" /\ ReachesRule8(c)
           => (c.pid \in KillPids <=> ~Young(c))

\* C16, amended: a candidate whose environment carries both a session and a pane
\* id and that reaches rule 8 is not retained because its directory matches a
\* hint; it is retained by rule 8 exactly when pane-strict with evidence is not
\* in force and an active command matches it, and otherwise rules 9 and 10
\* decide it.
C16_IdentityNoDirectoryHint ==
    \A i \in 1..Len(agent_candidates) :
        LET c == agent_candidates[i]
        IN DecidedAt(i) /\ c.session # "" /\ c.pane_id # "" /\ ReachesRule8(c)
           => (c.pid \in KillPids <=>
                  ~Young(c) /\ (StrictWithEvidence \/ ~CommandHint(c)))

\* not pane-strict, no minimum age: a candidate with session and pane id whose
\* directory matches a hint and whose command matches none reaches rule 8 and
\* is killed
C16_Witness ==
    /\ pc = "done"
    /\ ~cfg.pane_strict
    /\ cfg.min_process_age_secs = 0
    /\ \E c \in Candidates :
          /\ c.session # "" /\ c.pane_id # ""
          /\ ReachesRule8(c)
          /\ DirectoryHint(c)
          /\ ~CommandHint(c)
          /\ c.pid \in KillPids

\* rule 4's candidate: session and pane id, the session has an entry in the
\* active-pane index, the pane id is not in it, rules 1-2 did not decide
PaneMissCase(c) ==
    /\ ~FilterExcluded(c)
    /\ ~LeaseFlagged(c)
    /\ c.session # ""
    /\ c.pane_id # ""
    /\ c.session \in DOMAIN active_panes_by_session
    /\ c.pane_id \notin active_panes_by_session[c.session]

\* a positive minimum age is configured and the known age has reached it
AgedOut(c) ==
    /\ cfg.min_process_age_secs > 0
    /\ c.etimes # NoEtimes
    /\ c.etimes >= cfg.min_process_age_secs

\* C17: a pane-miss candidate is killed if and only if pane-strict with evidence
\* is in force, or a positive minimum age is configured and its known elapsed
\* age is at least that minimum; otherwise it is retained and counted as
\* skipped-pane-miss; safe-tree and keep-tree membership do not change this.
C17_PaneMissOutcome ==
    /\ \A i \in 1..Len(agent_candidates) :
          LET c == agent_candidates[i]
          IN DecidedAt(i) /\ PaneMissCase(c)
             => (c.pid \in KillPids <=> StrictWithEvidence \/ AgedOut(c))
    /\ LoopDone =>
          skipped_pane_miss =
              Cardinality({c \in Candidates :
                              PaneMissCase(c) /\ ~StrictWithEvidence /\ ~AgedOut(c)})

\* not pane-strict, a minimum age: a pane-miss candidate that is in safe_pids
\* and in keep_tree and old enough is killed
C17_Witness ==
    /\ pc = "done"
    /\ ~cfg.pane_strict
    /\ \E c \in Candidates :
          /\ PaneMissCase(c)
          /\ AgedOut(c)
          /\ c.pid \in safe_pids
          /\ c.pid \in keep_tree
          /\ c.pid \in KillPids
    /\ skipped_pane_miss = 0

\* C18: with a session filter set, a candidate whose environment session is
\* non-empty and is not one of the active (allowed) sessions is never in the
\* kill list and is counted in neither skipped counter, whatever the later
\* rules (lease mismatch, pane-miss, pane-strict, age) would say.
C18_FilteredSessionRetained ==
    /\ \A c \in Candidates :
          cfg.filter_set /\ c.session # "" /\ c.session \notin active_sessions
              => c.pid \notin KillPids
    /\ (\A c \in Candidates :
           cfg.filter_set /\ c.session # "" /\ c.session \notin active_sessions)
          => kill_list = << >> /\ skipped_young = 0 /\ skipped_pane_miss = 0

\* a filter on s1, pane-strict with evidence and a minimum age: an old candidate
\* of session s2 with a lease mismatch, outside the safe tree, is not killed
C18_Witness ==
    /\ pc = "done"
    /\ cfg.filter_set
    /\ StrictWithEvidence
    /\ cfg.min_process_age_secs > 0
    /\ \E c \in Candidates :
          /\ c.session = "s2"
          /\ c.session \notin active_sessions
          /\ LeaseFlagged(c)
          /\ c.pid \notin safe_pids
          /\ AgedOut(c)
          /\ c.pid \notin KillPids

\* a positive minimum age is configured and the candidate's age is unknown or
\* below it
UnderAge(c) ==
    /\ cfg.min_process_age_secs > 0
    /\ (c.etimes = NoEtimes \/ c.etimes < cfg.min_process_age_secs)

\* rules 1-8 leave the candidate undecided
ReachesRule9(c) ==
    /\ ReachesRule8(c)
    /\ ~(/\ ~StrictWithEvidence
         /\ \/ CommandHint(c)
            \/ ~(c.session # "" /\ c.pane_id # "") /\ DirectoryHint(c))

\* C19: with a positive minimum age configured, a candidate that reaches rule 9
\* with an elapsed age below the minimum, or with an unknown age, is retained
\* and counted as skipped-young; when pane-strict with evidence is not in force
\* no candidate younger than the minimum is in the kill list unless it has a
\* lease mismatch.
C19_YoungRetained ==
    /\ \A i \in 1..Len(agent_candidates) :
          LET c == agent_candidates[i]
          IN DecidedAt(i) /\ ReachesRule9(c) /\ UnderAge(c) => c.pid \notin KillPids
    /\ LoopDone =>
          skipped_young = Cardinality({c \in Candidates : ReachesRule9(c) /\ UnderAge(c)})
    /\ ~StrictWithEvidence =>
          \A c \in Candidates : UnderAge(c) /\ ~LeaseFlagged(c) => c.pid \notin KillPids

\* a candidate of unknown age that nothing else retains has reached rule 9 and
\* is counted as skipped-young
C19_Witness ==
    /\ pc = "done"
    /\ cfg.min_process_age_secs > 0
    /\ \E c \in Candidates :
          /\ ReachesRule9(c)
          /\ c.etimes = NoEtimes
          /\ c.pid \notin safe_pids
          /\ c.pid \notin KillPids
    /\ skipped_young = 1
    /\ Reported("skipped_young")

\* the first n signals sent are sig to the first n kill-list pids, in order
RoundIs(from, n, sig) ==
    /\ Len(signals) >= from + n
    /\ \A i \in 1..n :
          signals[from + i].sig = sig /\ signals[from + i].pid = kill_list[i].pid

\* C20: in a pass that is not a dry run, every kill-list pid is sent the
\* graceful signal before any pid is sent the forceful one, the grace pause lies
\* between the two rounds, the forceful signal goes only to kill-list pids, and
\* a pid found gone in either round is passed over without ending the pass or
\* the round; a dry run sends nothing.
C20_TermBeforeKill ==
    /\ cfg.dry_run => signals = << >>
    /\ \A j \in 1..Len(signals) :
          /\ signals[j].pid \in KillPids
          /\ signals[j].sig = "SIGKILL" =>
                j > Len(kill_list) /\ RoundIs(0, Len(kill_list), "SIGTERM")
          /\ signals[j].res = "gone" /\ j = Len(signals) => pc # "crashed"
    /\ pc = "pause" =>
          Len(signals) = Len(kill_list) /\ RoundIs(0, Len(kill_list), "SIGTERM")
    /\ pc = "kill" =>
          /\ RoundIs(0, Len(kill_list), "SIGTERM")
          /\ RoundIs(Len(kill_list), Len(signals) - Len(kill_list), "SIGKILL")
    /\ pc = "done" /\ ~cfg.dry_run =>
          /\ Len(signals) = 2 * Len(kill_list)
          /\ RoundIs(0, Len(kill_list), "SIGTERM")
          /\ RoundIs(Len(kill_list), Len(kill_list), "SIGKILL")

\* a kill list of two pids; the first was gone at its graceful signal, the
\* second took it, and both rounds have been sent in full
C20_Witness ==
    /\ pc = "done"
    /\ ~cfg.dry_run
    /\ Len(kill_list) = 2
    /\ Len(signals) = 4
    /\ signals[1].res = "gone"
    /\ signals[2].res = "sent"
    /\ signals[3].sig = "SIGKILL"
    /\ signals[4].res = "gone"

\* the socket an argument list names with -L or -S after the word tmux
SocketNamed(args) ==
    {args[j + 1] : j \in {k \in 2..(Len(args) - 1) :
                            args[k] \in {"-L", "-S"} /\ args[1] = "tmux"}}

\* a detached server: a tmux process started with the daemon flag
DetachedServer(p) ==
    /\ processes[p].comm = "tmux"
    /\ \E i \in 2..Len(processes[p].args) : processes[p].args[i] = "-D"

\* C21 as stated: in the final safe_pids, for every safe process whose argument
\* string names a socket with -L or -S, every detached server anywhere in the
\* table bound to the same socket name, with all its descendants, is in
\* safe_pids.
C21_Original ==
    SafeDone =>
        \A p \in safe_pids \cap DOMAIN processes :
            \A q \in DOMAIN processes :
                /\ DetachedServer(q)
                /\ SocketNamed(processes[q].args) \cap SocketNamed(processes[p].args) # {}
                => ChildClosure({q}, Cardinality(DOMAIN processes)) \subseteq safe_pids

(***************************************************************************)
(* Pane-strict selection (lines 826-874).                                  *)
(***************************************************************************)
PaneStrictRan == KeepDone /\ used_pane_selection

\* the candidates of one (session, pane_id) group, lines 827-835
GroupOf(key) ==
    {c \in Candidates :
        /\ c.pane_id # ""
        /\ <<c.session, c.pane_id>> = key
        /\ (active_sessions = {} \/ c.session = "" \/ c.session \in active_sessions)}

GroupKeys == {k \in {<<c.session, c.pane_id>> : c \in Candidates} : GroupOf(k) # {}}

\* the member of pool that the order of lines 815-824 puts first
TopRanked(pool) ==
    CHOOSE p \in pool : \A q \in pool \ {p} : RankLess(root_rank(p), root_rank(q))

KeptOf(key) == {c \in GroupOf(key) : c.pid \in keep_pids}

\* the expected total leaves every group in (lines 864)
NoCut == expected_total = 0 \/ Cardinality(GroupKeys) <= expected_total

\* members of the group whose parent is outside the group, lines 847-849
GroupRoots(key) ==
    {c \in GroupOf(key) : \A d \in GroupOf(key) : c.ppid # d.pid}

\* C22 as stated: when the expected total drops no group, each pane group
\* keeps exactly its top-ranked member, whatever the terminals and the parent
\* links inside the group.
C22_Original ==
    PaneStrictRan /\ NoCut =>
        \A k \in GroupKeys : KeptOf(k) = {TopRanked(GroupOf(k))}

\* C22: when the expected total drops no group, each pane group keeps exactly
\* one member: the top-ranked of its members with a terminal, or, when none
\* has a terminal, the top-ranked of the members whose parent is outside the
\* group (of all members when every parent is inside).
C22_TopOfPreferredPool ==
    PaneStrictRan /\ NoCut =>
        \A k \in GroupKeys :
            LET with_tty == {c \in GroupOf(k) : c.has_tty}
                pool == IF with_tty # {} THEN with_tty
                        ELSE IF GroupRoots(k) # {} THEN GroupRoots(k)
                        ELSE GroupOf(k)
            IN KeptOf(k) = {TopRanked(pool)}

\* a group without terminals whose child member outranks its parent: the
\* parent is the one kept
C22_Witness ==
    /\ PaneStrictRan /\ NoCut
    /\ \E k \in GroupKeys :
          /\ \A c \in GroupOf(k) : ~c.has_tty
          /\ \E c \in GroupOf(k), d \in GroupOf(k) :
                /\ c.ppid = d.pid
                /\ TopRanked(GroupOf(k)) = c
                /\ KeptOf(k) = {d}

\* the order of lines 865-871 between the entries of two groups
GroupBefore(k, d) ==
    LET tk == \E c \in GroupOf(k) : c.has_tty
        td == \E c \in GroupOf(d) : c.has_tty
        sk == k[1] # ""
        sd == d[1] # ""
    IN \/ tk /\ ~td
       \/ tk = td /\ sk /\ ~sd
       \/ tk = td /\ sk = sd
          /\ RankLess(root_rank(SelectedRoot(k).proc), root_rank(SelectedRoot(d).proc))

MoreGroupsThanExpected == expected_total > 0 /\ Cardinality(GroupKeys) > expected_total

\* C23: in pane-strict selection under a positive expected total, keep_pids
\* has at most that many pids; when there are more pane groups than the
\* total, exactly expected-total groups are kept, one pid each, and every
\* kept group comes before every dropped group in the order (terminal first,
\* then session, then candidate rank).
C23_CutToExpectedTotal ==
    PaneStrictRan /\ expected_total > 0 =>
        /\ Cardinality(keep_pids) <= expected_total
        /\ MoreGroupsThanExpected =>
              /\ Cardinality(keep_pids) = expected_total
              /\ Cardinality({k \in GroupKeys : KeptOf(k) # {}}) = expected_total
              /\ \A k \in GroupKeys, d \in GroupKeys :
                    KeptOf(k) # {} /\ KeptOf(d) = {} => GroupBefore(k, d)

\* three groups under an expected total of two: a group is dropped although
\* it has a terminal
C23_Witness ==
    /\ PaneStrictRan /\ MoreGroupsThanExpected
    /\ Cardinality(keep_pids) = expected_total
    /\ \E d \in GroupKeys : KeptOf(d) = {} /\ \E c \in GroupOf(d) : c.has_tty

(***************************************************************************)
(* The three keep strategies (lines 826-918).                              *)
(***************************************************************************)
DirectoryKeeps == UNION {CwdSelection(d) : d \in DOMAIN ev.expected_cwds}

IdentityKeeps == UNION {IdSelection(a) : a \in DOMAIN ev.expected_ids}

PrunerRan == pc = "done"

\* the file's pane id is in its session's active-pane set
InActivePaneSet(f) ==
    /\ f.session \in DOMAIN active_panes_by_session
    /\ f.pane_id \in active_panes_by_session[f.session]

\* the file's JSON pid is a live process whose environment names the file's
\* session and pane
PidLiveInPane(f) ==
    /\ f.json_ok /\ f.pid > 0
    /\ f.pid \in os_live /\ f.pid \in DOMAIN host.environ
    /\ host.environ[f.pid].session = f.session
    /\ host.environ[f.pid].pane_id = f.pane_id

\* C25 as stated: after the pruner ran, a snapshot file is in place exactly
\* if its pane is active or its pid lives in its pane, or if the pass is a
\* dry run; the count is the number of the other files, under every session
\* filter and for unreadable files too.
C25_Original ==
    PrunerRan =>
        /\ \A f \in host.snapshots :
              f \in fs_files <=> (cfg.dry_run \/ InActivePaneSet(f) \/ PidLiveInPane(f))
        /\ removed_snapshots =
              Cardinality({f \in host.snapshots :
                              ~InActivePaneSet(f) /\ ~PidLiveInPane(f)})

(***************************************************************************)
(* Two concurrent passes (lines 997-1015, 521-530).                        *)
(***************************************************************************)
BothDone == pc = "done" /\ peer.pc = "done"

\* a signal of one of the passes was refused and ended it
SomePassFailed ==
    \/ pc = "crashed" /\ signals # << >>
    \/ peer.pc = "crashed"

\* C26 as stated: with two passes on one host, no pass ends in an error,
\* whatever the order of their signals and deletions, and when both are done
\* (not in dry-run) no snapshot file is left whose pane is not active and
\* whose pid does not live in its pane.
C26_Original ==
    /\ ~SomePassFailed
    /\ BothDone /\ ~cfg.dry_run =>
          \A f \in host.snapshots :
              f \in fs_files => InActivePaneSet(f) \/ PidLiveInPane(f)

(***************************************************************************)
(* Layout parsing (lines 221-315).                                         *)
(***************************************************************************)
EvidenceRead == pc \notin {"start", "sessions", "skipped", "crashed"}

DumpText == host.layouts["s1"].text

ParsedFromText ==
    /\ EvidenceRead
    /\ host.layouts # Empty /\ "text" \in DOMAIN host.layouts["s1"]

\* the lines of the tab that starts at line i
TabSpan(i) ==
    {j \in (i + 1)..Len(DumpText) : \A k \in (i + 1)..j : DumpText[k].tab = ""}

TabStarts == {i \in 1..Len(DumpText) : DumpText[i].tab # ""}

\* the line's name is an identity marker, of either form
IsMarker(line) ==
    \/ AgentMarkerId(StripChars(line.name)) # << >>
    \/ AocMarkerId(StripChars(line.name)) # << >>

MarkersIn(i) == Cardinality({j \in TabSpan(i) : IsMarker(DumpText[j])})

\* the working-directory values of the tab, in the order of the text
RECURSIVE DirsFrom(_, _)
DirsFrom(j, last) ==
    IF j > last THEN << >>
    ELSE IF DumpText[j].tab # "" THEN << >>
    ELSE LET c == normalize_cwd(DumpText[j].cwd, host.projects_base)
         IN (IF c # << >> THEN <<c>> ELSE << >>) \o DirsFrom(j + 1, last)

DirsIn(i) == DirsFrom(i + 1, Len(DumpText))

\* the tabs whose most frequent directory is d and which hold a marker
TabsRootedAt(d) ==
    {i \in TabStarts : MarkersIn(i) > 0 /\ DirsIn(i) # << >> /\ MostCommon(DirsIn(i)) = d}

\* C27 as stated: expected_cwds[d] is the number of identity markers, of
\* either form, of the tabs that hold a directory and whose most frequent
\* directory is d; a directory that is no such tab's has no count, unless it
\* is the project directory guessed from an identity.
C27_Original ==
    ParsedFromText =>
        \A d \in {DirA, DirB, DirAB, RelB} :
            IF TabsRootedAt(d) # {}
            THEN CountOf(ev.expected_cwds, d)
                     = SumOver([i \in TabsRootedAt(d) |-> MarkersIn(i)], TabsRootedAt(d))
            ELSE d \in DOMAIN ev.expected_cwds =>
                     /\ host.projects_base # << >>
                     /\ \E a \in DOMAIN ev.expected_ids :
                           d = PathJoin(host.projects_base, a) /\ d \in host.dirs

\* the panes of the tab named "Agent [<id>]"
AgentPanesIn(i) ==
    Cardinality({j \in TabSpan(i) : AgentMarkerId(StripChars(DumpText[j].name)) # << >>})

AgentTabsRootedAt(d) ==
    {i \in TabStarts :
        AgentPanesIn(i) > 0 /\ DirsIn(i) # << >> /\ MostCommon(DirsIn(i)) = d}

\* C27: expected_cwds[d] is the number of panes named "Agent [<id>]" of the
\* tabs that hold a directory and whose most frequent directory is d; names
\* "aoc:<id>" count for expected_ids only.  A directory that is no such
\* tab's has no count, unless it is the project directory guessed from an
\* identity.
C27_AgentPanesCounted ==
    ParsedFromText =>
        \A d \in {DirA, DirB, DirAB, RelB} :
            IF AgentTabsRootedAt(d) # {}
            THEN CountOf(ev.expected_cwds, d)
                     = SumOver([i \in AgentTabsRootedAt(d) |-> AgentPanesIn(i)],
                               AgentTabsRootedAt(d))
            ELSE d \in DOMAIN ev.expected_cwds =>
                     /\ host.projects_base # << >>
                     /\ \E a \in DOMAIN ev.expected_ids :
                           d = PathJoin(host.projects_base, a) /\ d \in host.dirs

\* a tab with a directory, a pane "Agent [a]" and a pane "aoc:b": its
\* directory is counted once
C27_Witness ==
    /\ ParsedFromText
    /\ \E i \in TabStarts :
          /\ AgentPanesIn(i) > 0 /\ MarkersIn(i) > AgentPanesIn(i)
          /\ DirsIn(i) # << >>
          /\ CountOf(ev.expected_cwds, MostCommon(DirsIn(i))) = AgentPanesIn(i)

(***************************************************************************)
(* Exclusions of the classification (lines 749-758, 23-35).                *)
(***************************************************************************)
\* the command name or a word of the arguments holds a protected name
ProtectedCommand(p) ==
    \/ WordHasProtected(processes[p].comm)
    \/ \E w \in Words(processes[p].args) : WordHasProtected(w)

\* the arguments hold grep, pgrep or ps as a word
SearchesForAgents(p) == Words(processes[p].args) \cap {"grep", "pgrep", "ps"} # {}

Signalled == {signals[i].pid : i \in 1..Len(signals)}

\* C28 as stated: a process with a protected name in its command name or
\* arguments, or with grep, pgrep or ps among its arguments, is never an
\* agent candidate, never on the kill list and never signalled.
C28_Original ==
    \A p \in DOMAIN processes :
        ProtectedCommand(p) \/ SearchesForAgents(p) =>
            /\ p \notin {c.pid : c \in Candidates}
            /\ p \notin KillPids
            /\ p \notin Signalled

(***************************************************************************)
(* Who is signalled (lines 746-810, 927-1015).                             *)
(***************************************************************************)
\* the number of signals sig sent to pid
SentTo(pid, sig) ==
    Cardinality({i \in 1..Len(signals) : signals[i].pid = pid /\ signals[i].sig = sig})

\* C29: every signal goes to a pid of the kill list; every kill-list pid is a
\* row of the process table of this pass that passes the agent test and the
\* exclusions; no pid is twice on the kill list, and no pid gets more than
\* one SIGTERM and one SIGKILL.
C29_OnlyListedCandidatesSignalled ==
    /\ \A i \in 1..Len(signals) : signals[i].pid \in KillPids
    /\ \A i \in 1..Len(kill_list) :
          /\ kill_list[i].pid \in DOMAIN processes
          /\ is_agent_process(processes[kill_list[i].pid].args,
                              processes[kill_list[i].pid].comm)
          /\ ~is_excluded(processes[kill_list[i].pid].args,
                          processes[kill_list[i].pid].comm)
          /\ \A j \in 1..Len(kill_list) : kill_list[j].pid = kill_list[i].pid => j = i
    /\ \A p \in DOMAIN host.procs, sig \in {"SIGTERM", "SIGKILL"} : SentTo(p, sig) <= 1

\* a finished pass that sent both signals to each of two agents and none to
\* the other processes of the table
C29_Witness ==
    /\ pc = "done"
    /\ Len(kill_list) = 2
    /\ \A p \in KillPids : SentTo(p, "SIGTERM") = 1 /\ SentTo(p, "SIGKILL") = 1
    /\ \E p \in DOMAIN processes : p \notin KillPids /\ p \in os_live

(***************************************************************************)
(* Termination of the tree computations (lines 612-621, 700-704).          *)
(***************************************************************************)
SafeTreeComputed == pc \notin {"start", "sessions", "roots", "ancestors"}

\* C30 as stated: on every process table, cyclic or not, the pass gets past
\* the descendant closure and the walk up the tool's ancestors.  (On a row
\* that names itself as its parent an iteration of the walk changes nothing:
\* the loop spins in one state.)
C30_Original == <>SafeTreeComputed

====
